---- MODULE Spec2Model ----
(***************************************************************************)
(* Model of clipify: the segment selector (find_important_segments and its *)
(* text-length fallback) and the transcript windower                       *)
(* (split_transcript_by_timestamps) of clipify/core/content_analysis.py,   *)
(* the clock-string functions of clipify/core/utils.py, and the pipeline   *)
(* orchestrator main_workflow of main.py, and the collaborators            *)
(* download_youtube_video, transcribe_audio_with_whisper and               *)
(* extract_video_segments.                                                 *)
(*                                                                         *)
(* Spec          one call of the selector on a transcript                  *)
(* SpecReselect  the selector called again on its own output               *)
(* SpecWindower  one call of the windower, one step per loop iteration     *)
(* SpecTime      format_time, then convert_time_to_seconds on its output;  *)
(*               convert_time_to_seconds on an arbitrary string            *)
(* SpecWorkflow  one run of main_workflow, one step per collaborator call  *)
(* SpecCollaborators  one call of download_youtube_video, of               *)
(*               transcribe_audio_with_whisper or of extract_video_segments*)
(* SpecMalformed the selector on segments that may lack a timestamp        *)
(* SpecPaths     the selector's two scoring paths on the same arguments    *)
(*                                                                         *)
(* Times are whole seconds.  A text is a sequence of one-character         *)
(* strings; " " is whitespace.  A dictionary key that is absent reads as   *)
(* NoneVal through dict.get.                                               *)
(***************************************************************************)
EXTENDS Integers, Sequences, FiniteSets, TLC

VARIABLES
    \* --- segment selector (find_important_segments) ---
    transcription_segments, \* selector input: list of {text, start, end}
    nlp,                    \* the tagger spacy.load returns: text -> doc (POS tags)
    num_segments,           \* selector argument
    min_segment_duration,   \* selector argument
    load,                   \* outcome of spacy.load: "ok", "OSError", "Exception"
    sel_pc,                 \* "input" -> "selected" -> "reselected", or
                            \* "input" -> "compared"
    result,                 \* what find_important_segments returned or raised
    again,                  \* the selector run a second time on result.out,
                            \* or on the same input down the fallback path
    again_min,              \* min_segment_duration of the second run
    \* --- transcript windower (split_transcript_by_timestamps) ---
    transcription_result,   \* "None", "no_segments_key" or "dict"
    w_segments,             \* transcription_result['segments']
    interval,
    w_pc,                   \* "idle", "begin", "loop", "words", "done"
    si,                     \* index of the segment the outer loop is at
    wi,                     \* index of the word the inner loop is at
    segments_text_time,     \* windows emitted so far
    current_segment_texts,
    current_segment_start_time,
    last_word_end_time,
    w_raised,               \* "" or the name of the exception that ended the call
    \* --- clock strings (format_time, convert_time_to_seconds) ---
    t_pc,                   \* "idle", "seconds" -> "formatted" -> "converted",
                            \* "string" -> "parsed"
    t_seconds,              \* argument of format_time
    time_str,               \* argument of convert_time_to_seconds
    t_result,               \* what convert_time_to_seconds returned or raised
    \* --- pipeline orchestrator (main_workflow) ---
    r_pc,                   \* the stage the run is at, "returned", "done" or "raised"
    args,                   \* skip_captioning, keep_intermediate_files
    stage_outcome,          \* what each of stages 1-4 and 7 did, "" when not yet run
    whisper,                \* transcription_result as transcription returned it
    live_segments,          \* the dicts of transcription_result['segments'] as
                            \* they are now
    selection,              \* selected_segments as Stage 4 left it
    selected_segments,
    extracted_clips_info,
    processed_clips_info,
    r_i,                    \* index of the record the current loop is at
    rec_outcome,            \* per selected record: what its cut, reformat and
                            \* caption calls did, "" when not called
    files,                  \* the paths that exist
    found,                  \* the paths main_workflow found when it was called
    call_log,               \* the collaborator calls made so far, in order
    final_segment_paths,
    \* --- collaborators called on their own ---
    c_pc,                   \* "idle", "download" -> "downloaded",
                            \* "transcribe" -> "transcribed"
    d_in,                   \* what yt-dlp and the file system hand download_youtube_video
    d_out,                  \* what download_youtube_video returned
    a_in,                   \* what the file system and Whisper hand
                            \* transcribe_audio_with_whisper
    a_out,                  \* what transcribe_audio_with_whisper returned
    e_in,                   \* what the file system and ffmpeg hand
                            \* extract_video_segments, and its span
    e_out                   \* what extract_video_segments returned

sel_vars == <<transcription_segments, nlp, num_segments, min_segment_duration,
              load, sel_pc, result, again, again_min>>

win_vars == <<transcription_result, w_segments, interval, w_pc, si, wi,
              segments_text_time, current_segment_texts,
              current_segment_start_time, last_word_end_time, w_raised>>

time_vars == <<t_pc, t_seconds, time_str, t_result>>

run_vars == <<r_pc, args, stage_outcome, whisper, live_segments, selection,
              selected_segments,
              extracted_clips_info, processed_clips_info, r_i, rec_outcome,
              files, found, call_log, final_segment_paths>>

col_vars == <<c_pc, d_in, d_out, a_in, a_out, e_in, e_out>>

vars == <<sel_vars, win_vars, time_vars, run_vars, col_vars>>

----------------------------------------------------------------------------
(* Bounds of the model *)

MaxSegs == 2
MaxTime == 2
MaxNum == 2
MaxNeg == 1
MaxWSegs == 2
MaxWords == 2
MaxWTime == 2
MaxInterval == 2
MaxSeconds == 86399
MaxParts == 4
MaxClips == 2
MaxMalformedSegs == 2
MaxLeftover == 2

\* what dict.get returns for an absent timestamp key (None); times are >= 0
NoneVal == -1

Min(a, b) == IF a <= b THEN a ELSE b
Max(a, b) == IF a >= b THEN a ELSE b

----------------------------------------------------------------------------
(* Inputs *)

\* texts a transcript segment may carry: blank, one letter, two letters
\* wrapped in whitespace
TextPool == { <<" ">>, <<"a">>, <<"\t", "b", "c", "\n">> }

Times == 0 .. MaxTime

\* TranscriptSegment of the data model: text, start, end with end >= start
WellFormedSegments ==
    { [text |-> t, start |-> s, end |-> e] :
        <<t, s, e>> \in { x \in TextPool \X Times \X Times : x[3] >= x[2] } }

SeqsUpTo(S, n) == UNION { [1..k -> S] : k \in 0..n }

\* the documents the tagger may produce for the trimmed texts of TextPool
TaggerPool ==
    { [t \in { <<"a">>, <<"b", "c">> } |->
          IF t = <<"a">> THEN <<"NOUN">> ELSE <<"ADJ", "DET">>],
      [t \in { <<"a">>, <<"b", "c">> } |->
          IF t = <<"a">> THEN <<"DET", "VERB">> ELSE <<"PROPN", "NOUN">>] }

\* what stands for a document when the call nlp(text) raises instead
NlpError == <<"raises">>

\* a tagger that loads and then raises on every text
FailingTaggerPool ==
    { [t \in { <<"a">>, <<"b", "c">> } |-> NlpError] }

LoadOutcomes == {"ok", "OSError", "Exception"}

----------------------------------------------------------------------------
(* Python primitives *)

\* the characters str.strip() takes for whitespace, within ASCII: space, tab,
\* line feed, carriage return, form feed, vertical tab and the four
\* separators 0x1c .. 0x1f
Whitespace == {" ", "\t", "\n", "\r", "\f", "", "", "", "", ""}

RECURSIVE LStrip(_)
\* the leading half of str.strip()
LStrip(t) ==
    IF t = <<>> THEN <<>>
    ELSE IF Head(t) \in Whitespace THEN LStrip(Tail(t)) ELSE t

RECURSIVE RStrip(_)
\* the trailing half of str.strip()
RStrip(t) ==
    IF t = <<>> THEN <<>>
    ELSE IF t[Len(t)] \in Whitespace THEN RStrip(SubSeq(t, 1, Len(t) - 1)) ELSE t

\* str.strip()
Strip(t) == RStrip(LStrip(t))

\* dict.get(key, default) for a timestamp key
Get(seg, key, default) == IF seg[key] = NoneVal THEN default ELSE seg[key]

\* lst[:n]
Slice_OffByOne(s, n) ==
    IF n + 1 >= 0 THEN SubSeq(s, 1, Min(n + 1, Len(s)))
    ELSE SubSeq(s, 1, Max(Len(s) + n + 1, 0))

Slice(s, n) ==
    IF n >= 0 THEN SubSeq(s, 1, Min(n, Len(s)))
    ELSE SubSeq(s, 1, Max(Len(s) + n, 0))

\* position after every element whose field is >= x's (stable, descending)
RECURSIVE InsertDesc(_, _, _)
InsertDesc(s, x, field) ==
    IF s = <<>> THEN <<x>>
    ELSE IF Head(s)[field] >= x[field]
         THEN <<Head(s)>> \o InsertDesc(Tail(s), x, field)
         ELSE <<x>> \o s

RECURSIVE InsertAsc(_, _, _)
InsertAsc(s, x, field) ==
    IF s = <<>> THEN <<x>>
    ELSE IF Head(s)[field] <= x[field]
         THEN <<Head(s)>> \o InsertAsc(Tail(s), x, field)
         ELSE <<x>> \o s

\* position before every element whose field is <= x's
RECURSIVE InsertDescFirst(_, _, _)
InsertDescFirst(s, x, field) ==
    IF s = <<>> THEN <<x>>
    ELSE IF Head(s)[field] > x[field]
         THEN <<Head(s)>> \o InsertDescFirst(Tail(s), x, field)
         ELSE <<x>> \o s

RECURSIVE SortDesc_LaterFirst(_, _)
SortDesc_LaterFirst(s, field) ==
    IF s = <<>> THEN <<>>
    ELSE InsertDescFirst(SortDesc_LaterFirst(SubSeq(s, 1, Len(s) - 1), field),
                         s[Len(s)], field)

\* list.sort(key=lambda x: x[field], reverse=True): stable
RECURSIVE SortDesc_Ascending(_, _)
SortDesc_Ascending(s, field) ==
    IF s = <<>> THEN <<>>
    ELSE InsertAsc(SortDesc_Ascending(SubSeq(s, 1, Len(s) - 1), field),
                   s[Len(s)], field)

RECURSIVE SortDesc(_, _)
SortDesc(s, field) ==
    IF s = <<>> THEN <<>>
    ELSE InsertDesc(SortDesc(SubSeq(s, 1, Len(s) - 1), field), s[Len(s)], field)

\* list.sort(key=lambda x: x[field]): stable
SortAsc_Skipped(s, field) == s

RECURSIVE SortAsc(_, _)
SortAsc(s, field) ==
    IF s = <<>> THEN <<>>
    ELSE InsertAsc(SortAsc(SubSeq(s, 1, Len(s) - 1), field), s[Len(s)], field)

\* [{'text': s['text'], 'start': s['start'], 'end': s['end']} for s in ...]
Project(s) ==
    [i \in 1..Len(s) |-> [text |-> s[i].text, start |-> s[i].start, end |-> s[i].end]]

Returned(out, calls) == [raised |-> FALSE, out |-> out, nlp_calls |-> calls]
Raised(calls)        == [raised |-> TRUE,  out |-> <<>>, nlp_calls |-> calls]

----------------------------------------------------------------------------
(* _find_important_segments_basic *)

\* duration >= min_segment_duration
MeetsMinDuration_Strict(duration, min_dur) == duration > min_dur

MeetsMinDuration_Flipped(duration, min_dur) == duration <= min_dur

MeetsMinDuration(duration, min_dur) == duration >= min_dur

\* the loop that fills valid_segments; seg['start'] / seg['end'] raise KeyError
\* when the key is absent
RECURSIVE BasicValid(_, _, _)
BasicValid(segs, min_dur, valid) ==
    IF segs = <<>> THEN [raised |-> FALSE, valid |-> valid]
    ELSE LET seg      == Head(segs)
             duration == Get(seg, "end", 0) - Get(seg, "start", 0)
         IN IF MeetsMinDuration(duration, min_dur) /\ Strip(seg.text) # <<>>
            THEN IF seg.start = NoneVal \/ seg.end = NoneVal
                 THEN [raised |-> TRUE, valid |-> valid]
                 ELSE BasicValid(Tail(segs), min_dur,
                        Append(valid, [text        |-> Strip(seg.text),
                                       start       |-> seg.start,
                                       end         |-> seg.end,
                                       duration    |-> duration,
                                       text_length |-> Len(Strip(seg.text))]))
            ELSE BasicValid(Tail(segs), min_dur, valid)

FindImportantSegmentsBasic_RaisesOnEmpty(segs, n, min_dur) ==
    LET r == BasicValid(segs, min_dur, <<>>)
    IN IF r.raised \/ r.valid = <<>> THEN Raised(0)
       ELSE Returned(Project(SortAsc(Slice(SortDesc(r.valid, "text_length"), n),
                                     "start")), 0)

FindImportantSegmentsBasic(segs, n, min_dur) ==
    IF segs = <<>> THEN Returned(<<>>, 0)
    ELSE LET r == BasicValid(segs, min_dur, <<>>)
         IN IF r.raised THEN Raised(0)
            ELSE Returned(Project(SortAsc(Slice(SortDesc(r.valid, "text_length"), n),
                                          "start")), 0)

----------------------------------------------------------------------------
(* find_important_segments *)

\* len([token for token in doc if token.pos_ in ['NOUN', 'PROPN', 'VERB']])
Score(doc) == Cardinality({ i \in DOMAIN doc : doc[i] \in {"NOUN", "PROPN", "VERB"} })

\* the loop that fills scored_segments
RECURSIVE ScoredSegments(_, _, _)
ScoredSegments(segs, tagger, scored) ==
    IF segs = <<>> THEN scored
    ELSE LET seg  == Head(segs)
             text == Strip(seg.text)
         IN IF ~(text # <<>> /\ seg.start # NoneVal /\ seg.end # NoneVal)
            THEN ScoredSegments(Tail(segs), tagger, scored)
            ELSE ScoredSegments(Tail(segs), tagger,
                   Append(scored, [text           |-> text,
                                   start          |-> seg.start,
                                   end            |-> seg.end,
                                   original_score |-> Score(tagger[text]),
                                   duration       |-> seg.end - seg.start]))

\* the calls of nlp the loop makes up to the first one that raises; the loop
\* has no try around nlp(text)
RECURSIVE NlpCallsUntilRaise(_, _)
NlpCallsUntilRaise(segs, tagger) ==
    IF segs = <<>> THEN 0
    ELSE LET seg  == Head(segs)
             text == Strip(seg.text)
         IN IF ~(text # <<>> /\ seg.start # NoneVal /\ seg.end # NoneVal)
            THEN NlpCallsUntilRaise(Tail(segs), tagger)
            ELSE IF tagger[text] = NlpError THEN 1
            ELSE 1 + NlpCallsUntilRaise(Tail(segs), tagger)

\* some call nlp(text) of the loop raises
TaggerRaises(segs, tagger) ==
    \E i \in DOMAIN segs :
        /\ Strip(segs[i].text) # <<>>
        /\ segs[i].start # NoneVal /\ segs[i].end # NoneVal
        /\ tagger[Strip(segs[i].text)] = NlpError

CandidateSegments(scored, min_dur) ==
    SelectSeq(scored, LAMBDA seg : MeetsMinDuration(seg.duration, min_dur))

FindImportantSegmentsSpacy_NoResort(segs, n, min_dur, tagger) ==
    IF segs = <<>> THEN Returned(<<>>, 0)
    ELSE LET scored     == ScoredSegments(segs, tagger, <<>>)
             candidates == CandidateSegments(scored, min_dur)
         IN Returned(Project(Slice(SortDesc(candidates, "original_score"), n)),
                     Len(scored))

FindImportantSegmentsSpacy_FallsBack(segs, n, min_dur, tagger) ==
    IF segs = <<>> THEN Returned(<<>>, 0)
    ELSE IF TaggerRaises(segs, tagger)
    THEN FindImportantSegmentsBasic(segs, n, min_dur)
    ELSE LET scored     == ScoredSegments(segs, tagger, <<>>)
             candidates == CandidateSegments(scored, min_dur)
         IN IF candidates = <<>> THEN Returned(<<>>, Len(scored))
            ELSE Returned(Project(SortAsc(Slice(SortDesc(candidates, "original_score"),
                                                n), "start")),
                          Len(scored))

\* the body after spacy.load succeeded
FindImportantSegmentsSpacy(segs, n, min_dur, tagger) ==
    IF segs = <<>> THEN Returned(<<>>, 0)
    ELSE IF TaggerRaises(segs, tagger)
    THEN Raised(NlpCallsUntilRaise(segs, tagger))
    ELSE LET scored     == ScoredSegments(segs, tagger, <<>>)
             candidates == CandidateSegments(scored, min_dur)
         IN IF candidates = <<>> THEN Returned(<<>>, Len(scored))
            ELSE Returned(Project(SortAsc(Slice(SortDesc(candidates, "original_score"),
                                                n), "start")),
                          Len(scored))

\* only the missing model is caught; any other loading error propagates
FindImportantSegments_OSErrorOnly(segs, n, min_dur, ld, tagger) ==
    IF ld = "OSError" THEN FindImportantSegmentsBasic(segs, n, min_dur)
    ELSE IF ld = "Exception" THEN Raised(0)
    ELSE FindImportantSegmentsSpacy(segs, n, min_dur, tagger)

FindImportantSegments(segs, n, min_dur, ld, tagger) ==
    IF ld = "OSError" THEN FindImportantSegmentsBasic(segs, n, min_dur)
    ELSE IF ld = "Exception" THEN FindImportantSegmentsBasic(segs, n, min_dur)
    ELSE FindImportantSegmentsSpacy(segs, n, min_dur, tagger)

----------------------------------------------------------------------------
(* The selector run on a transcript, and run again on its own output *)

NoResult == Returned(<<>>, 0)

WinIdle ==
    /\ transcription_result = "None"
    /\ w_segments = <<>>
    /\ interval = 0
    /\ w_pc = "idle"
    /\ si = 0
    /\ wi = 0
    /\ segments_text_time = <<>>
    /\ current_segment_texts = <<>>
    /\ current_segment_start_time = NoneVal
    /\ last_word_end_time = 0
    /\ w_raised = ""

\* what convert_time_to_seconds hands back: a number of seconds, or ValueError
Seconds(n) == [out |-> n, raised |-> FALSE, exc |-> ""]
ValueError == [out |-> 0, raised |-> TRUE, exc |-> "ValueError"]
NoSeconds == [out |-> 0, raised |-> FALSE, exc |-> "not called"]

TimeIdle ==
    /\ t_pc = "idle"
    /\ t_seconds = 0
    /\ time_str = <<>>
    /\ t_result = NoSeconds

NoStageOutcome ==
    [ingest |-> "", audio |-> "", transcribe |-> "", select |-> "", tagger |-> "",
     cleanup |-> ""]

NoWhisper == [has_text |-> FALSE, has_segments |-> FALSE, segments |-> <<>>]

RunIdle ==
    /\ r_pc = "idle"
    /\ args = [skip_captioning |-> FALSE, keep_intermediate_files |-> FALSE]
    /\ stage_outcome = NoStageOutcome
    /\ whisper = NoWhisper
    /\ live_segments = <<>>
    /\ selection = <<>>
    /\ selected_segments = <<>>
    /\ extracted_clips_info = <<>>
    /\ processed_clips_info = <<>>
    /\ r_i = 0
    /\ rec_outcome = <<>>
    /\ files = {}
    /\ found = {}
    /\ call_log = <<>>
    /\ final_segment_paths = <<>>

\* an info_dict yt-dlp hands back, the paths that exist, and the path
\* prepare_filename answers; "None" is None, "absent" a key that is not there
NoDownload ==
    [extract |-> "None", requested |-> "absent", filename |-> "absent",
     title_ext |-> FALSE, exist |-> {}, listed |-> "none", prepared |-> "T"]

\* the audio file, what whisper.load_model does and what model.transcribe does
NoAudio ==
    [file_exists |-> FALSE, load |-> "ok", transcribe |-> "raised",
     result |-> NoWhisper]

\* what transcribe_audio_with_whisper hands back, and how often it loaded
\* the model
Transcribed(value, loads) == [returned |-> "result", value |-> value, load_calls |-> loads]
NotTranscribed(loads) == [returned |-> "None", value |-> NoWhisper, load_calls |-> loads]

\* the input video, the directory of the output file, the span to cut and
\* what ffmpeg does when it is run
NoExtract ==
    [video_exists |-> FALSE, dir |-> "exists", start |-> 0, end |-> 0,
     tool |-> "ok"]

\* what extract_video_segments hands back or "raised", how often it ran
\* ffmpeg, and whether it left a new output directory
Extracted(value, runs, made) ==
    [returned |-> value, tool_calls |-> runs, made_dir |-> made]

ColIdle ==
    /\ c_pc = "idle"
    /\ d_in = NoDownload
    /\ d_out = "not called"
    /\ a_in = NoAudio
    /\ a_out = NotTranscribed(0)
    /\ e_in = NoExtract
    /\ e_out = Extracted("not called", 0, FALSE)

SelInit ==
    /\ transcription_segments \in SeqsUpTo(WellFormedSegments, MaxSegs)
    /\ nlp \in TaggerPool
    /\ num_segments = 0
    /\ min_segment_duration = 0
    /\ load = "ok"
    /\ sel_pc = "input"
    /\ result = NoResult
    /\ again = NoResult
    /\ again_min = 0

Init == SelInit /\ WinIdle /\ TimeIdle /\ RunIdle /\ ColIdle

\* find_important_segments(transcription_segments, num_segments, min_segment_duration)
Select ==
    /\ sel_pc = "input"
    /\ \E n \in (0 - MaxNeg) .. MaxNum, d \in Times, ld \in LoadOutcomes :
          /\ num_segments' = n
          /\ min_segment_duration' = d
          /\ load' = ld
          /\ result' = FindImportantSegments(transcription_segments, n, d, ld, nlp)
    /\ sel_pc' = "selected"
    /\ UNCHANGED <<transcription_segments, nlp, again, again_min, win_vars,
                   time_vars, run_vars,
                   col_vars>>

Durations(out) == { out[i].end - out[i].start : i \in DOMAIN out }

\* the selector fed its own output, same num_segments, same loading outcome
Reselect ==
    /\ sel_pc = "selected"
    /\ ~result.raised
    /\ \E d \in Times :
          /\ \A x \in Durations(result.out) : d <= x
          /\ again_min' = d
          /\ again' = FindImportantSegments(result.out, num_segments, d, load, nlp)
    /\ sel_pc' = "reselected"
    /\ UNCHANGED <<transcription_segments, nlp, num_segments, min_segment_duration,
                   load, result, win_vars, time_vars, run_vars,
                   col_vars>>

Next == Select

Spec == Init /\ [][Next]_vars

NextReselect == Select \/ Reselect

SpecReselect == Init /\ [][NextReselect]_vars

----------------------------------------------------------------------------
(* utils.format_time and utils.convert_time_to_seconds *)

DigitChars == <<"0", "1", "2", "3", "4", "5", "6", "7", "8", "9">>

RECURSIVE Digits(_)
\* f"{n}" for an integer n >= 0
Digits(n) ==
    IF n < 10 THEN <<DigitChars[n + 1]>>
    ELSE Digits(n \div 10) \o <<DigitChars[(n % 10) + 1]>>

\* f"{n:02d}" for an integer n >= 0
Pad2(n) == IF n < 10 THEN <<"0">> \o Digits(n) ELSE Digits(n)

FormatTime_DropsHours(seconds) ==
    Digits((seconds \div 60) % 60) \o <<":">> \o Pad2(seconds % 60)

\* the clock string of a whole number of seconds
FormatTime(seconds) ==
    LET minutes == seconds \div 60
        secs    == seconds % 60
        hours   == minutes \div 60
        mins    == minutes % 60
    IN IF hours > 0
       THEN Digits(hours) \o <<":">> \o Pad2(mins) \o <<":">> \o Pad2(secs)
       ELSE Digits(mins) \o <<":">> \o Pad2(secs)

RECURSIVE Split(_, _)
\* s.split(sep): the pieces of s between the occurrences of sep
Split(s, sep) ==
    IF \A i \in DOMAIN s : s[i] # sep THEN <<s>>
    ELSE LET k == CHOOSE i \in DOMAIN s :
                      s[i] = sep /\ \A j \in 1 .. (i - 1) : s[j] # sep
         IN <<SubSeq(s, 1, k - 1)>> \o Split(SubSeq(s, k + 1, Len(s)), sep)

DigitValue(c) == CHOOSE d \in 0 .. 9 : DigitChars[d + 1] = c

IsDigit(c) == \E d \in 0 .. 9 : DigitChars[d + 1] = c

RECURSIVE Unsigned(_)
\* the value of a non-empty run of decimal digits
Unsigned(s) ==
    IF Len(s) = 1 THEN DigitValue(s[1])
    ELSE 10 * Unsigned(SubSeq(s, 1, Len(s) - 1)) + DigitValue(s[Len(s)])

\* the characters int() skips at the two ends of a string, within ASCII:
\* those of str.strip() but the four separators
IntWhitespace == {" ", "\t", "\n", "\r", "\f", ""}

RECURSIVE IntStrip(_)
\* the part without the whitespace int() skips around it
IntStrip(t) ==
    IF t = <<>> THEN <<>>
    ELSE IF Head(t) \in IntWhitespace THEN IntStrip(Tail(t))
    ELSE IF t[Len(t)] \in IntWhitespace THEN IntStrip(SubSeq(t, 1, Len(t) - 1))
    ELSE t

\* what int() reads the number from: the part without the whitespace around
\* it and without its sign
IntBody(part) ==
    LET s == IntStrip(part)
    IN IF s # <<>> /\ Head(s) \in {"+", "-"} THEN Tail(s) ELSE s

\* int(part) does not raise ValueError: whitespace around, an optional sign,
\* then decimal digits, with single underscores allowed between two digits
IsInt(part) ==
    LET body == IntBody(part)
    IN /\ body # <<>>
       /\ \A i \in DOMAIN body :
             \/ IsDigit(body[i])
             \/ /\ body[i] = "_"
                /\ 1 < i /\ i < Len(body)
                /\ IsDigit(body[i - 1]) /\ IsDigit(body[i + 1])

\* int(part), for a part int() accepts
Int_(part) ==
    LET s      == IntStrip(part)
        digits == SelectSeq(IntBody(part), IsDigit)
    IN IF Head(s) = "-" THEN 0 - Unsigned(digits) ELSE Unsigned(digits)

ConvertTimeToSeconds_MinutesAsHours(str) ==
    LET parts == Split(str, ":")
    IN IF Len(parts) \notin {2, 3} \/ \E i \in DOMAIN parts : ~IsInt(parts[i])
       THEN ValueError
       ELSE IF Len(parts) = 3
       THEN Seconds(Int_(parts[1]) * 3600 + Int_(parts[2]) * 60 + Int_(parts[3]))
       ELSE Seconds(Int_(parts[1]) * 3600 + Int_(parts[2]))

\* what convert_time_to_seconds(str) returns, or the exception it raises
ConvertTimeToSeconds(str) ==
    LET parts == Split(str, ":")
    IN IF Len(parts) = 3
       THEN IF \A i \in 1 .. 3 : IsInt(parts[i])
            THEN Seconds(Int_(parts[1]) * 3600 + Int_(parts[2]) * 60 + Int_(parts[3]))
            ELSE ValueError
       ELSE IF Len(parts) = 2
       THEN IF \A i \in 1 .. 2 : IsInt(parts[i])
            THEN Seconds(Int_(parts[1]) * 60 + Int_(parts[2]))
            ELSE ValueError
       ELSE ValueError

----------------------------------------------------------------------------
(* split_transcript_by_timestamps *)

\* content_analysis.py never binds the name format_time: its import is
\* commented out and the module defines no function of that name, so the
\* f-string that labels a window raises NameError
FormatTimeBound == FALSE

WTimes == 0 .. MaxWTime

\* the text of segment i and of word j of segment i: every fragment distinct
SegText(i) == IF i = 1 THEN <<"A">> ELSE IF i = 2 THEN <<"B">> ELSE <<"C">>
WordText(i, j) ==
    IF i = 1 THEN (IF j = 1 THEN <<"a">> ELSE IF j = 2 THEN <<"b">> ELSE <<"c">>)
    ELSE IF i = 2 THEN (IF j = 1 THEN <<"d">> ELSE IF j = 2 THEN <<"e">> ELSE <<"f">>)
    ELSE (IF j = 1 THEN <<"g">> ELSE IF j = 2 THEN <<"h">> ELSE <<"i">>)

Spans == { sp \in [start : WTimes, end : WTimes] : sp.end >= sp.start }

\* a segment of the transcript: its own span, and its words when it has the
\* 'words' key
WSegmentShapes ==
    [span : Spans, has_words : {FALSE}, words : {<<>>}]
      \cup [span : Spans, has_words : {TRUE}, words : SeqsUpTo(Spans, MaxWords)]

WSegment(i, shape) ==
    [start     |-> shape.span.start,
     end       |-> shape.span.end,
     text      |-> SegText(i),
     has_words |-> shape.has_words,
     words     |-> [j \in DOMAIN shape.words |->
                      [start |-> shape.words[j].start,
                       end   |-> shape.words[j].end,
                       text  |-> WordText(i, j)]]]

WTranscripts ==
    { [i \in DOMAIN shapes |-> WSegment(i, shapes[i])] :
        shapes \in SeqsUpTo(WSegmentShapes, MaxWSegs) }

RECURSIVE Join(_)
\* "".join(texts)
Join(texts) == IF texts = <<>> THEN <<>> ELSE Head(texts) \o Join(Tail(texts))

\* (start - last_word_end_time > interval / 2 and last_word_end_time != 0)
\*    or (end - current_segment_start_time > interval)
SplitCond_GapOnly(item_start, item_end, window_start, last_end, ival) ==
    2 * (item_start - last_end) > ival /\ last_end # 0

SplitCond(item_start, item_end, window_start, last_end, ival) ==
    \/ (2 * (item_start - last_end) > ival /\ last_end # 0)
    \/ (item_end - window_start > ival)

\* {"time": f"{format_time(a)} - {format_time(b)}", "text": "".join(texts)}
Window(a, b, texts) ==
    [time |-> FormatTime(a) \o <<" ", "-", " ">> \o FormatTime(b),
     text |-> Join(texts)]

SelIdle ==
    /\ transcription_segments = <<>>
    /\ nlp \in { CHOOSE t \in TaggerPool : TRUE }
    /\ num_segments = 0
    /\ min_segment_duration = 0
    /\ load = "ok"
    /\ sel_pc = "idle"
    /\ result = NoResult
    /\ again = NoResult
    /\ again_min = 0

WinInit ==
    /\ \/ /\ transcription_result \in {"None", "no_segments_key"}
          /\ w_segments = <<>>
       \/ /\ transcription_result = "dict"
          /\ w_segments \in WTranscripts
    /\ interval \in 1 .. MaxInterval
    /\ w_pc = "begin"
    /\ si = 0
    /\ wi = 0
    /\ segments_text_time = <<>>
    /\ current_segment_texts = <<>>
    /\ current_segment_start_time = NoneVal
    /\ last_word_end_time = 0
    /\ w_raised = ""

\* if not transcription_result or 'segments' not in transcription_result: return []
WBegin ==
    /\ w_pc = "begin"
    /\ IF transcription_result = "dict"
       THEN w_pc' = "loop" /\ si' = 1
       ELSE w_pc' = "done" /\ si' = si
    /\ UNCHANGED <<transcription_result, w_segments, interval, wi, segments_text_time,
                   current_segment_texts, current_segment_start_time,
                   last_word_end_time, w_raised, sel_vars, time_vars, run_vars,
                   col_vars>>

\* one item (a word, or a segment without words) through the split test and
\* the append; label_end is what the closing window's end label is built from,
\* next_* is where the loops stand after the item
ItemStep(item, window_start, label_end, next_pc, next_si, next_wi) ==
    LET split == SplitCond(item.start, item.end, window_start, last_word_end_time,
                           interval)
        emit  == split /\ current_segment_texts # <<>>
    IN IF emit /\ ~FormatTimeBound
       THEN /\ w_raised' = "NameError"
            /\ w_pc' = "done"
            /\ current_segment_start_time' = window_start
            /\ UNCHANGED <<si, wi, segments_text_time, current_segment_texts,
                           last_word_end_time>>
       ELSE /\ segments_text_time' =
                 IF emit
                 THEN Append(segments_text_time,
                             Window(window_start, label_end, current_segment_texts))
                 ELSE segments_text_time
            /\ current_segment_start_time' =
                 IF split THEN item.start ELSE window_start
            /\ current_segment_texts' =
                 Append(IF emit THEN <<>> ELSE current_segment_texts, item.text)
            /\ last_word_end_time' = item.end
            /\ w_pc' = next_pc
            /\ si' = next_si
            /\ wi' = next_wi
            /\ UNCHANGED w_raised

\* the body of "for segment_info in transcription_result['segments']" up to the
\* word loop, and the whole of it for a segment without 'words'
WSegmentStep ==
    /\ w_pc = "loop"
    /\ si <= Len(w_segments)
    /\ LET seg          == w_segments[si]
           window_start == IF current_segment_start_time = NoneVal
                           THEN seg.start ELSE current_segment_start_time
       IN IF seg.has_words
          THEN /\ current_segment_start_time' = window_start
               /\ IF seg.words = <<>>
                  THEN w_pc' = "loop" /\ si' = si + 1 /\ wi' = wi
                  ELSE w_pc' = "words" /\ si' = si /\ wi' = 1
               /\ UNCHANGED <<segments_text_time, current_segment_texts,
                              last_word_end_time, w_raised>>
          ELSE ItemStep(seg, window_start,
                        IF last_word_end_time > window_start
                        THEN last_word_end_time ELSE seg.start,
                        "loop", si + 1, wi)
    /\ UNCHANGED <<transcription_result, w_segments, interval, sel_vars,
                   time_vars, run_vars,
                   col_vars>>

\* the body of "for word_info in segment_info['words']"
WWordStep ==
    /\ w_pc = "words"
    /\ LET word == w_segments[si].words[wi]
           more == wi < Len(w_segments[si].words)
       IN ItemStep(word, current_segment_start_time, last_word_end_time,
                   IF more THEN "words" ELSE "loop",
                   IF more THEN si ELSE si + 1,
                   IF more THEN wi + 1 ELSE wi)
    /\ UNCHANGED <<transcription_result, w_segments, interval, sel_vars,
                   time_vars, run_vars,
                   col_vars>>

\* "Add any remaining text as the last segment" and return
WFlush ==
    /\ w_pc = "loop"
    /\ si > Len(w_segments)
    /\ IF current_segment_texts # <<>>
       THEN IF FormatTimeBound
            THEN /\ segments_text_time' =
                      Append(segments_text_time,
                             Window(current_segment_start_time, last_word_end_time,
                                    current_segment_texts))
                 /\ w_raised' = w_raised
            ELSE /\ w_raised' = "NameError"
                 /\ segments_text_time' = segments_text_time
       ELSE UNCHANGED <<segments_text_time, w_raised>>
    /\ w_pc' = "done"
    /\ UNCHANGED <<transcription_result, w_segments, interval, si, wi,
                   current_segment_texts, current_segment_start_time,
                   last_word_end_time, sel_vars, time_vars, run_vars,
                   col_vars>>

InitWindower == SelIdle /\ WinInit /\ TimeIdle /\ RunIdle /\ ColIdle

NextWindower == WBegin \/ WSegmentStep \/ WWordStep \/ WFlush

SpecWindower == InitWindower /\ [][NextWindower]_vars

----------------------------------------------------------------------------
(* Properties of the selector *)

Selected == sel_pc = "selected"

Range(s) == { s[i] : i \in DOMAIN s }

\* the {text, start, end} record a transcript segment is returned as
AsSelected(seg) == [text |-> Strip(seg.text), start |-> seg.start, end |-> seg.end]

\* positions of the transcript segments that pass the text and duration filters
CandidateIdx ==
    { i \in DOMAIN transcription_segments :
        /\ Strip(transcription_segments[i].text) # <<>>
        /\ transcription_segments[i].end - transcription_segments[i].start
               >= min_segment_duration }

\* the score the active path gives a trimmed text
ScoreOfText(text) == IF load = "ok" THEN Score(nlp[text]) ELSE Len(text)

CountIn(out, rec) == Cardinality({ i \in DOMAIN out : out[i] = rec })

CountCandidates(rec) ==
    Cardinality({ i \in CandidateIdx : AsSelected(transcription_segments[i]) = rec })

SortedByStart(out) ==
    \A i \in 1 .. Len(out) - 1 : out[i].start <= out[i + 1].start

\* C1 as stated: the selector never returns more than num_segments entries,
\* whatever num_segments is.
C1_AtMostNumSegments ==
    Selected => Len(result.out) <= num_segments

\* C1 amended: for num_segments >= 0 the selector returns at most num_segments
\* entries, on either path.
C1_AtMostNumSegmentsNonNegative ==
    (Selected /\ num_segments >= 0) => Len(result.out) <= num_segments

C1_Witness ==
    /\ Selected
    /\ num_segments = 1
    /\ Cardinality(CandidateIdx) = 2
    /\ Len(result.out) = 1

\* C2: with num_segments <= 0 the selector returns the empty list, on either
\* path, whatever the transcript holds.
C2_NonPositiveYieldsEmpty ==
    (Selected /\ num_segments <= 0) => (~result.raised /\ result.out = <<>>)

\* C3: every returned segment lasts at least min_segment_duration, and when no
\* segment does the selector returns the empty list without raising.
C3_MinDuration ==
    Selected =>
        /\ ~result.raised
        /\ \A i \in DOMAIN result.out :
               result.out[i].end - result.out[i].start >= min_segment_duration
        /\ (\A i \in DOMAIN transcription_segments :
               transcription_segments[i].end - transcription_segments[i].start
                  < min_segment_duration)
             => result.out = <<>>

C3_Witness ==
    /\ Selected
    /\ Len(result.out) = 1
    /\ Len(transcription_segments) = 2
    /\ \A i \in DOMAIN transcription_segments :
          Strip(transcription_segments[i].text) # <<>>
    /\ \E i \in DOMAIN transcription_segments :
          transcription_segments[i].end - transcription_segments[i].start
             < min_segment_duration
    /\ num_segments = 2

\* C4: for num_segments >= 0 the returned list is sorted by start ascending,
\* on either path.
C4_SortedByStart ==
    (Selected /\ num_segments >= 0) => SortedByStart(result.out)

C4_Witness ==
    /\ Selected
    /\ Len(transcription_segments) = 2
    /\ transcription_segments[1].start > transcription_segments[2].start
    /\ Len(result.out) = 2
    /\ result.out[1].start < result.out[2].start

\* C5: for num_segments >= 0 the selector returns exactly
\* min(num_segments, number of candidates) of the candidates, and no candidate
\* left out scores strictly higher than a returned one.
C5_TopByScore ==
    (Selected /\ num_segments >= 0) =>
        /\ ~result.raised
        /\ Len(result.out) = Min(num_segments, Cardinality(CandidateIdx))
        /\ \A rec \in Range(result.out) : CountIn(result.out, rec) <= CountCandidates(rec)
        /\ \A i \in CandidateIdx :
              LET rec == AsSelected(transcription_segments[i])
              IN CountIn(result.out, rec) < CountCandidates(rec)
                    => \A r \in Range(result.out) :
                          ScoreOfText(rec.text) <= ScoreOfText(r.text)

C5_Witness ==
    /\ Selected
    /\ num_segments = 1
    /\ Cardinality(CandidateIdx) = 2
    /\ Len(result.out) = 1
    /\ result.out[1] = AsSelected(transcription_segments[2])
    /\ ScoreOfText(Strip(transcription_segments[1].text))
          < ScoreOfText(Strip(transcription_segments[2].text))

\* C6: when spacy.load fails, with OSError or with any other exception,
\* find_important_segments returns what _find_important_segments_basic returns
\* for the same arguments, and the tagger is never called.
C6_TotalFallback ==
    (Selected /\ load # "ok") =>
        /\ result = FindImportantSegmentsBasic(transcription_segments, num_segments,
                                               min_segment_duration)
        /\ result.nlp_calls = 0

C6_Witness ==
    /\ Selected
    /\ load = "Exception"
    /\ result.out # <<>>
    /\ result.out # FindImportantSegmentsSpacy(transcription_segments, num_segments,
                                               min_segment_duration, nlp).out

\* C7: the selector run on its own output, with the same num_segments and a
\* min_segment_duration no larger than the smallest duration in that output,
\* returns that output unchanged.
C7_Idempotent ==
    sel_pc = "reselected" => (~again.raised /\ again.out = result.out)

\* C8: an empty transcript segment list yields the empty list on either path,
\* and no error.
C8_EmptyInput ==
    (Selected /\ transcription_segments = <<>>) =>
        (~result.raised /\ result.out = <<>>)

C8_Witness ==
    /\ Selected
    /\ transcription_segments = <<>>
    /\ num_segments = 2
    /\ load = "OSError"
    /\ result.out = <<>>

----------------------------------------------------------------------------
(* Properties of the windower *)

\* the text fragments of the transcript, in order: the word texts of a segment
\* that has words, the segment text otherwise
RECURSIVE Fragments(_)
Fragments(segs) ==
    IF segs = <<>> THEN <<>>
    ELSE (IF Head(segs).has_words
          THEN [j \in DOMAIN Head(segs).words |-> Head(segs).words[j].text]
          ELSE <<Head(segs).text>>) \o Fragments(Tail(segs))

WindowTexts == [k \in DOMAIN segments_text_time |-> segments_text_time[k].text]

\* C9: when split_transcript_by_timestamps returns, the texts of its windows
\* joined in order equal the input text fragments joined in order.
C9_TextPreserved ==
    w_pc = "done" =>
        /\ w_raised = ""
        /\ Join(WindowTexts) = Join(Fragments(w_segments))

\* the loops stand at an item: a word, or a segment without words
AtItem ==
    \/ w_pc = "words"
    \/ (w_pc = "loop" /\ si <= Len(w_segments) /\ ~w_segments[si].has_words)

CurrentItem == IF w_pc = "words" THEN w_segments[si].words[wi] ELSE w_segments[si]

\* items already appended when the loops stand at (si, wi)
ItemsBefore ==
    Len(Fragments(SubSeq(w_segments, 1, si - 1)))
       + (IF w_pc = "words" THEN wi - 1 ELSE 0)

\* C10: at every item after the first, the open window is closed and a new one
\* opened at item.start, before the item is appended, exactly when
\* item.start - last_end > interval/2 or item.end - window_start > interval;
\* otherwise the item is appended to the open window.
C10_SplitExactlyWhen ==
    [][ (AtItem /\ ItemsBefore >= 1) =>
          IF \/ 2 * (CurrentItem.start - last_word_end_time) > interval
             \/ CurrentItem.end - current_segment_start_time > interval
          THEN /\ Len(segments_text_time') = Len(segments_text_time) + 1
               /\ segments_text_time'[Len(segments_text_time')].text
                     = Join(current_segment_texts)
               /\ current_segment_start_time' = CurrentItem.start
               /\ current_segment_texts' = <<CurrentItem.text>>
          ELSE /\ segments_text_time' = segments_text_time
               /\ current_segment_start_time' = current_segment_start_time
               /\ current_segment_texts'
                     = Append(current_segment_texts, CurrentItem.text) ]_vars

\* the loops ran to the end of the input and the closing flush was reached
Exhausted ==
    w_pc = "done" /\ transcription_result = "dict" /\ si > Len(w_segments)

\* C26: every emitted window holds at least one text fragment, the window
\* still open when the input is exhausted is emitted whenever its buffer is
\* non-empty, and a missing transcript or one without 'segments' yields the
\* empty list
C26_WindowsNonEmptyAndFlushed ==
    /\ \A k \in DOMAIN segments_text_time : segments_text_time[k].text # <<>>
    /\ (Exhausted /\ current_segment_texts # <<>>) =>
          /\ w_raised = ""
          /\ segments_text_time # <<>>
          /\ segments_text_time[Len(segments_text_time)].text
                = Join(current_segment_texts)
    /\ (w_pc = "done" /\ transcription_result # "dict") =>
          (w_raised = "" /\ segments_text_time = <<>>)

\* the items of the transcript, in order: the words of a segment that has
\* words, the segment itself otherwise
RECURSIVE Items(_)
Items(segs) ==
    IF segs = <<>> THEN <<>>
    ELSE (IF Head(segs).has_words
          THEN [j \in DOMAIN Head(segs).words |->
                  [start |-> Head(segs).words[j].start,
                   end   |-> Head(segs).words[j].end,
                   text  |-> Head(segs).words[j].text]]
          ELSE <<[start |-> Head(segs).start, end |-> Head(segs).end,
                  text |-> Head(segs).text]>>) \o Items(Tail(segs))

\* the positions in Items of the items whose text is part of a window's text
ItemsOf(text) ==
    { i \in DOMAIN Items(w_segments) :
        \E c \in DOMAIN text : Items(w_segments)[i].text = <<text[c]>> }

\* "<start of the first item> - <end of the last item>" of a window's text
ItemLabel(text) ==
    LET items == Items(w_segments)
        ids   == ItemsOf(text)
        first == CHOOSE i \in ids : \A j \in ids : i <= j
        last  == CHOOSE i \in ids : \A j \in ids : i >= j
    IN FormatTime(items[first].start) \o <<" ", "-", " ">>
          \o FormatTime(items[last].end)

\* C27: each emitted window is labelled with the start time of the first item
\* it contains and the end time of the last item it contains, in the
\* word-level and in the segment-level branch; the window closed at the end of
\* the input is one of them
C27_LabelledByItems ==
    /\ \A k \in DOMAIN segments_text_time :
          segments_text_time[k].time = ItemLabel(segments_text_time[k].text)
    /\ (Exhausted /\ current_segment_texts # <<>>) =>
          /\ segments_text_time # <<>>
          /\ segments_text_time[Len(segments_text_time)].time
                = ItemLabel(Join(current_segment_texts))

\* the input is in time order: segments by start, the words of a segment
\* inside the segment and by start
TimeOrdered ==
    /\ \A i, j \in DOMAIN w_segments :
          i < j => w_segments[i].start <= w_segments[j].start
    /\ \A i \in DOMAIN w_segments :
          LET words == w_segments[i].words
          IN /\ \A j \in DOMAIN words :
                   /\ w_segments[i].start <= words[j].start
                   /\ words[j].end <= w_segments[i].end
             /\ \A j, k \in DOMAIN words : j < k => words[j].start <= words[k].start

\* end of the last item minus start of the first item of a window's text
ItemSpan(text) ==
    LET items == Items(w_segments)
        ids   == ItemsOf(text)
        first == CHOOSE i \in ids : \A j \in ids : i <= j
        last  == CHOOSE i \in ids : \A j \in ids : i >= j
    IN items[last].end - items[first].start

\* C36: for time-ordered input every emitted window of two or more items
\* spans at most the interval, from the start of its first item to the end of
\* its last; so does, at every step, the window being built, which is what an
\* emit hands over
C36_WindowWithinInterval ==
    TimeOrdered =>
        /\ \A k \in DOMAIN segments_text_time :
              Cardinality(ItemsOf(segments_text_time[k].text)) >= 2 =>
                 ItemSpan(segments_text_time[k].text) <= interval
        /\ Len(current_segment_texts) >= 2 =>
              ItemSpan(Join(current_segment_texts)) <= interval

\* a segment of one second and, without a split, a second one ending at the
\* interval: the closing emit is handed a window of two items that spans the
\* whole interval
C36_Witness ==
    /\ Exhausted
    /\ TimeOrdered
    /\ interval = 2
    /\ Len(w_segments) = 2
    /\ Len(current_segment_texts) = 2
    /\ ItemSpan(Join(current_segment_texts)) = interval
----------------------------------------------------------------------------
(* format_time and convert_time_to_seconds, called *)

\* the pieces the strings handed to convert_time_to_seconds are built from:
\* integers with and without padding, sign, surrounding whitespace or
\* underscore, and pieces int() rejects
PartPool ==
    { <<>>, <<"0">>, <<"7">>, <<"0", "7">>, <<"-", "7">>, <<"x">>, <<"7", "x">>,
      <<"-">>, <<"+", "7">>, <<" ", "7", "\n">>, <<"1", "_", "0">>,
      <<"_", "7">>, <<"-", " ", "7">>, <<"7", "">> }

RECURSIVE JoinColon(_)
\* ":".join(parts), parts not empty
JoinColon(parts) ==
    IF Len(parts) = 1 THEN parts[1]
    ELSE parts[1] \o <<":">> \o JoinColon(Tail(parts))

\* the strings of up to n pieces
TimeStrings(n) == { JoinColon(ps) : ps \in SeqsUpTo(PartPool, n) \ {<<>>} }

TimeInit ==
    /\ t_result = NoSeconds
    /\ \/ /\ t_pc = "seconds"
          /\ t_seconds \in 0 .. MaxSeconds
          /\ time_str = <<>>
       \/ /\ t_pc = "string"
          /\ t_seconds = 0
          /\ time_str \in TimeStrings(MaxParts)

\* time_str = format_time(t_seconds)
Format ==
    /\ t_pc = "seconds"
    /\ time_str' = FormatTime(t_seconds)
    /\ t_pc' = "formatted"
    /\ UNCHANGED <<t_seconds, t_result, sel_vars, win_vars, run_vars, col_vars>>

\* convert_time_to_seconds(format_time(t_seconds))
ConvertBack ==
    /\ t_pc = "formatted"
    /\ t_result' = ConvertTimeToSeconds(time_str)
    /\ t_pc' = "converted"
    /\ UNCHANGED <<t_seconds, time_str, sel_vars, win_vars, run_vars, col_vars>>

\* convert_time_to_seconds(time_str)
Parse ==
    /\ t_pc = "string"
    /\ t_result' = ConvertTimeToSeconds(time_str)
    /\ t_pc' = "parsed"
    /\ UNCHANGED <<t_seconds, time_str, sel_vars, win_vars, run_vars, col_vars>>

InitTime == SelIdle /\ WinIdle /\ RunIdle /\ ColIdle /\ TimeInit

NextTime == Format \/ ConvertBack \/ Parse

SpecTime == InitTime /\ [][NextTime]_vars

----------------------------------------------------------------------------
(* Properties of the clock strings *)

\* C11: converting the clock string of s back gives s, for every whole number
\* of seconds s from 0 up to the last second of a day
C11_RoundTrip ==
    t_pc = "converted" => (~t_result.raised /\ t_result.out = t_seconds)

\* 3665 seconds has gone through "1:01:05" and back
C11_Witness ==
    /\ t_pc = "converted"
    /\ t_seconds = 3665
    /\ time_str = <<"1", ":", "0", "1", ":", "0", "5">>
    /\ t_result = Seconds(3665)

\* C12: format_time renders M:SS, M being the total number of whole minutes,
\* never rolled over into hours (3600 is "60:00", 3665 is "61:05")
C12_TotalMinutes ==
    t_pc \in {"formatted", "converted"} =>
        time_str = Digits(t_seconds \div 60) \o <<":">> \o Pad2(t_seconds % 60)

\* C13: a string of two or three integer parts converts to m*60+s or
\* h*3600+m*60+s; every other string raises ValueError
C13_ConvertOrValueError ==
    t_pc = "parsed" =>
        LET parts == Split(time_str, ":")
            n(i)  == Int_(parts[i])
        IN IF Len(parts) \in {2, 3} /\ \A i \in DOMAIN parts : IsInt(parts[i])
           THEN /\ ~t_result.raised
                /\ t_result.out = IF Len(parts) = 3
                                  THEN n(1) * 3600 + n(2) * 60 + n(3)
                                  ELSE n(1) * 60 + n(2)
           ELSE t_result = ValueError

\* "7:07:-7" has been converted to 7*3600 + 7*60 - 7
C13_Witness ==
    /\ t_pc = "parsed"
    /\ time_str = <<"7", ":", "0", "7", ":", "-", "7">>
    /\ t_result = Seconds(25613)

----------------------------------------------------------------------------
(* main_workflow: paths, records, collaborators *)

\* a path: the temporary directory, the raw-clip directory, or the raw,
\* formatted or captioned file of the selected segment numbered seg
Path(kind, seg) == [kind |-> kind, seg |-> seg]
TempDir == Path("temp_dir", 0)
RawClipsDir == Path("raw_clips", 0)
NoPath == Path("none", 0)

\* the paths the run can meet in output_dir: the two directories and, for
\* each record it may select, the raw, formatted and captioned file named
\* after it
RunPaths ==
    {TempDir, RawClipsDir}
      \cup { Path(kind, seg) : kind \in {"raw", "formatted", "captioned"},
                               seg \in 1 .. MaxNum }

\* what an earlier run can have left in output_dir: any of these paths, a
\* raw clip only inside raw_clips, up to MaxLeftover clip files
Leftovers ==
    { fs \in SUBSET RunPaths :
        /\ (\E f \in fs : f.kind = "raw") => RawClipsDir \in fs
        /\ Cardinality(fs \ {TempDir, RawClipsDir}) <= MaxLeftover }

\* a collaborator call: its name and the selected segment it is about
Call(name, seg) == [name |-> name, seg |-> seg]

\* which object each dict of the selector's result is: the dicts of the
\* transcript are the objects 1 .. Len(segments), in transcript order, and
\* both selector paths end in a list of dict displays, so the result holds
\* dicts made by the call, the objects after those of the transcript
ReturnedDicts_InputDicts(out, segments) ==
    [i \in DOMAIN out |->
        CHOOSE k \in DOMAIN segments :
            segments[k].start = out[i].start /\ segments[k].end = out[i].end]

ReturnedDicts(out, segments) ==
    [i \in DOMAIN out |-> Len(segments) + i]

\* the dictionaries of selected_segments: the selector's text, start, end;
\* obj is the object the dict is; id is the position enumerate() gave the
\* record in Stage 5, which the file names carry; a key not yet set reads
\* NoPath
ClipRecords(out, objs) ==
    [i \in DOMAIN out |->
        [text |-> out[i].text, start |-> out[i].start, end |-> out[i].end,
         obj |-> objs[i],
         id |-> i, raw_clip_path |-> NoPath, final_clip_path |-> NoPath]]
\* what is known of a record's three calls before any was made; captions is
\* the list handed to add_captions_to_video
NotCalled == [cut |-> "", reformat |-> "", caption |-> "", captions |-> <<>>]

\* a fatal stage ends the run unless it handed back what the next stage needs
Fatal_OnlyWhenRaised(outcome) == outcome = "raised"

Fatal(outcome) == outcome # "ok"

LoopOver_AfterFirst(i, recs) == i > Min(1, Len(recs))

\* for i, ... in enumerate(selected_segments), in Stage 5 and in Stage 6: the
\* loop has passed every record
LoopOver(i, recs) == i > Len(recs)

AfterFatal_CleansUp(stage) == "cleanup"

\* where a fatal stage sends the run: a bare return
AfterFatal(stage) == "returned"

IngestOutcomes == {"ok", "None", "missing", "raised"}
AudioOutcomes == {"ok", "None", "raised"}
TranscribeOutcomes == {"ok", "None", "no_text", "raised"}

\* the transcripts Whisper hands back: segment k starts at k - 1; a segment
\* saying "a" after a space ends there, one second later or two seconds
\* later, a blank one (a line feed) ends two seconds later, over its successor
RunTexts == { <<"\n">>, <<" ", "a">> }

RunSegmentAt(k) ==
    { [text |-> t, start |-> k - 1, end |-> e] :
        <<t, e>> \in { x \in RunTexts \X ((k - 1) .. (k + 1)) :
                         Strip(x[1]) = <<>> => x[2] = k + 1 } }

RunSegmentLists ==
    UNION { { segs \in [1 .. n -> UNION { RunSegmentAt(k) : k \in 1 .. n }] :
                \A k \in 1 .. n : segs[k] \in RunSegmentAt(k) } :
            n \in 0 .. MaxClips }

RunTranscripts ==
    { [has_text |-> TRUE, has_segments |-> FALSE, segments |-> <<>>] }
      \cup { [has_text |-> TRUE, has_segments |-> TRUE, segments |-> segs] :
                segs \in RunSegmentLists }

ExtractVideoSegments_AnySpan(start_seconds, end_seconds, makedirs, tool) ==
    IF makedirs = "raised" THEN "raised" ELSE tool

\* extract_video_segments as Stage 5 calls it: an exception of os.makedirs
\* leaves the function before the span is looked at; then False without
\* running the tool when the span is not positive, otherwise what the tool did
ExtractVideoSegments(start_seconds, end_seconds, makedirs, tool) ==
    IF makedirs = "raised" THEN "raised"
    ELSE IF end_seconds - start_seconds <= 0 THEN "False" ELSE tool

\* os.makedirs(..., exist_ok=True): the directory is there or is created, or
\* creating it raises; Stage 5 and Stage 6 call it outside any try, and
\* extract_video_segments before its own
MakedirsOutcomes == {"ok", "raised"}

\* the tool is run: the directory is there and the span is positive
ToolRan(start_seconds, end_seconds, makedirs) ==
    makedirs = "ok" /\ end_seconds - start_seconds > 0

\* the files after extract_video_segments: the clip is there after True, is
\* not after a success that wrote nothing, and a tool that failed may have
\* written part of it, which nothing removes
CutFiles(fs, raw, o, ran) ==
    IF o = "True" THEN {fs \cup {raw}}
    ELSE IF o = "False" /\ ran THEN {fs, fs \cup {raw}}
    ELSE {fs}

\* what the tool run can come to: the tool wrote the clip, exited with 0
\* without a file, or failed
CutToolOutcomes == {"True", "True_no_file", "False"}

\* convert_video_aspect_ratio: the path with the file written, the path
\* without a file, None, or an exception of close() in its finally block
ReformatOutcomes == {"path", "path_no_file", "None", "raised"}

\* the files after convert_video_aspect_ratio: the formatted file is there
\* after "path" and is not after "path_no_file"; a write that raised, caught
\* or followed by a raising close(), may have left part of it
ReformatFiles(fs, formatted, o) ==
    IF o = "path" THEN {fs \cup {formatted}}
    ELSE IF o \in {"None", "raised"} THEN {fs, fs \cup {formatted}}
    ELSE {fs}

\* add_captions_to_video returns at once when its input file is missing;
\* otherwise it writes the captioned file, returns without it, or raises
CaptionOutcomes(fs, id) ==
    IF Path("formatted", id) \in fs
    THEN {"written", "not_written", "raised"}
    ELSE {"not_written"}

\* os.remove of the formatted file, whose OSError is caught
RemoveOutcomes == {"removed", "OSError"}

\* d[key] = value on the record numbered id, seen through a list that holds
\* the dict
WithKey(recs, id, key, value) ==
    [i \in DOMAIN recs |->
        IF recs[i].id # id THEN recs[i]
        ELSE IF key = "raw_clip_path"
        THEN [recs[i] EXCEPT !.raw_clip_path = value]
        ELSE [recs[i] EXCEPT !.final_clip_path = value]]

\* the dicts of the transcript as transcription handed them over: text, start
\* and end, and no path key
AsReceived(segments) ==
    [k \in DOMAIN segments |->
        [text |-> segments[k].text, start |-> segments[k].start,
         end |-> segments[k].end,
         raw_clip_path |-> NoPath, final_clip_path |-> NoPath]]

\* the position of the transcript dict that a record is, 0 when the record
\* is no dict of the transcript: segment_info['raw_clip_path'] = ... and
\* segment_data['final_clip_path'] = ... write to the object the record is
AliasOf(rec, segments) == IF rec.obj \in DOMAIN segments THEN rec.obj ELSE 0
\* d[key] = value on the transcript dict at position k
SetKey(segments, k, key, value) ==
    IF k = 0 THEN segments
    ELSE IF key = "raw_clip_path"
    THEN [segments EXCEPT ![k].raw_clip_path = value]
    ELSE [segments EXCEPT ![k].final_clip_path = value]

\* if success:
CutSucceeded_Always(o) == TRUE

CutSucceeded(o) == o \in {"True", "True_no_file"}

\* not (not converted_path)
ReformatSucceeded(o) == o \in {"path", "path_no_file"}

\* not (not raw_clip_input_path or not os.path.exists(raw_clip_input_path))
RawClipUsable_PathOnly(rec, fs) == rec.raw_clip_path # NoPath

RawClipUsable(rec, fs) == rec.raw_clip_path # NoPath /\ rec.raw_clip_path \in fs

RECURSIVE AdjustedTranscriptionSegments_Unclamped(_, _)
AdjustedTranscriptionSegments_Unclamped(segments, rec) ==
    IF segments = <<>> THEN <<>>
    ELSE LET ws        == Head(segments)
             rest      == AdjustedTranscriptionSegments_Unclamped(Tail(segments), rec)
             text      == Strip(ws.text)
             new_start == ws.start - rec.start
             new_end   == ws.end - rec.start
         IN IF ws.start < rec.end /\ ws.end > rec.start
               /\ text # <<>> /\ new_end > new_start
            THEN <<[text |-> text, start |-> new_start, end |-> new_end]>> \o rest
            ELSE rest

\* the caption set of a record: the transcript segments overlapping it,
\* blank texts dropped, times rebased on the record's start
RECURSIVE AdjustedTranscriptionSegments(_, _)
AdjustedTranscriptionSegments(segments, rec) ==
    IF segments = <<>> THEN <<>>
    ELSE LET ws        == Head(segments)
             rest      == AdjustedTranscriptionSegments(Tail(segments), rec)
             text      == Strip(ws.text)
             new_start == Max(0, ws.start - rec.start)
             new_end   == ws.end - rec.start
         IN IF ws.start < rec.end /\ ws.end > rec.start
               /\ text # <<>> /\ new_end > new_start
            THEN <<[text |-> text, start |-> new_start, end |-> new_end]>> \o rest
            ELSE rest

\* if not args.skip_captioning
CaptioningWanted_Always(a) == TRUE

CaptioningWanted(a) == ~a.skip_captioning

\* processed_clips_info.append(segment_data), final_clip_path set
WithFinal_Prepended(processed, rec, path) ==
    <<[rec EXCEPT !.final_clip_path = path]>> \o processed

WithFinal(processed, rec, path) ==
    Append(processed, [rec EXCEPT !.final_clip_path = path])

\* the record after the captioning call returned: the captioned file when
\* os.path.exists(captioned_output_path), the formatted file otherwise
AfterCaption_DropsUncaptioned(processed, rec, exists) ==
    IF exists THEN WithFinal(processed, rec, Path("captioned", rec.id))
    ELSE processed

AfterCaption(processed, rec, exists) ==
    WithFinal(processed, rec,
              IF exists THEN Path("captioned", rec.id)
              ELSE Path("formatted", rec.id))

\* the files once the captioning call is back: the formatted file goes when
\* the captioned file is there, intermediate files are not kept and
\* os.remove does not fail
AfterCaptionFiles(fs, id, keep, rm) ==
    IF Path("captioned", id) \in fs /\ ~keep /\ rm = "removed"
    THEN fs \ {Path("formatted", id)}
    ELSE fs

\* [s['final_clip_path'] for s in selected_segments
\*    if 'final_clip_path' in s and s['final_clip_path']]
FinalSegmentPaths(recs) ==
    LET with_path == SelectSeq(recs, LAMBDA rec : rec.final_clip_path # NoPath)
    IN [i \in DOMAIN with_path |-> with_path[i].final_clip_path]

\* where the run goes after Stage 4, whatever was selected
AfterSelection_EmptyReturns(sel) == IF sel = <<>> THEN "returned" ELSE "cut"

AfterSelection(sel) == "cut"

----------------------------------------------------------------------------
(* main_workflow: the stages *)

\* main_workflow is called: nothing is done yet, and output_dir holds
\* whatever an earlier run left in it
RunInit ==
    /\ r_pc = "entry"
    /\ args \in [skip_captioning : BOOLEAN, keep_intermediate_files : BOOLEAN]
    /\ stage_outcome = NoStageOutcome
    /\ whisper = NoWhisper
    /\ live_segments = <<>>
    /\ selection = <<>>
    /\ selected_segments = <<>>
    /\ extracted_clips_info = <<>>
    /\ processed_clips_info = <<>>
    /\ r_i = 0
    /\ rec_outcome = <<>>
    /\ files \in Leftovers
    /\ found = files
    /\ call_log = <<>>
    /\ final_segment_paths = <<>>

\* the head of main_workflow: output_dir is created when it is missing and
\* .clipify_temp when it is missing, outside any try, so an exception of
\* either os.makedirs ends main_workflow; what is in output_dir stays
Enter ==
    /\ r_pc = "entry"
    /\ \E makedirs \in MakedirsOutcomes :
          IF makedirs = "raised"
          THEN r_pc' = "raised" /\ files' = files
          ELSE r_pc' = "ingest" /\ files' = files \cup {TempDir}
    /\ UNCHANGED <<found, args, stage_outcome, whisper, live_segments, selection,
                   selected_segments, extracted_clips_info, processed_clips_info,
                   r_i, rec_outcome, call_log, final_segment_paths,
                   sel_vars, win_vars, time_vars, col_vars>>

\* Stage 1: download the URL or copy the local file into the temp directory
Ingest ==
    /\ r_pc = "ingest"
    /\ \E o \in IngestOutcomes :
          /\ stage_outcome' = [stage_outcome EXCEPT !.ingest = o]
          /\ r_pc' = IF Fatal(o) THEN AfterFatal("ingest") ELSE "audio"
    /\ call_log' = Append(call_log, Call("ingest", 0))
    /\ UNCHANGED <<found, args, whisper, live_segments, selection, selected_segments,
                   extracted_clips_info, processed_clips_info, r_i, rec_outcome,
                   files, final_segment_paths, sel_vars, win_vars, time_vars, col_vars>>

\* Stage 2: extract_audio_from_video
ExtractAudio ==
    /\ r_pc = "audio"
    /\ \E o \in AudioOutcomes :
          /\ stage_outcome' = [stage_outcome EXCEPT !.audio = o]
          /\ r_pc' = IF Fatal(o) THEN AfterFatal("audio") ELSE "transcribe"
    /\ call_log' = Append(call_log, Call("extract_audio", 0))
    /\ UNCHANGED <<found, args, whisper, live_segments, selection, selected_segments,
                   extracted_clips_info, processed_clips_info, r_i, rec_outcome,
                   files, final_segment_paths, sel_vars, win_vars, time_vars, col_vars>>

\* Stage 3: transcribe_audio_with_whisper
Transcribe ==
    /\ r_pc = "transcribe"
    /\ \E o \in TranscribeOutcomes :
          /\ stage_outcome' = [stage_outcome EXCEPT !.transcribe = o]
          /\ r_pc' = IF Fatal(o) THEN AfterFatal("transcribe") ELSE "select"
          /\ IF o = "ok" THEN whisper' \in RunTranscripts ELSE whisper' = NoWhisper
    /\ live_segments' = AsReceived(whisper'.segments)
    /\ call_log' = Append(call_log, Call("transcribe", 0))
    /\ UNCHANGED <<found, args, selection, selected_segments,
                   extracted_clips_info, processed_clips_info, r_i, rec_outcome,
                   files, final_segment_paths, sel_vars, win_vars, time_vars, col_vars>>

\* Stage 4, and the head of Stage 5 up to its loop: the selector is called
\* when the transcript has segments, an exception of it leaves nothing
\* selected; raw_clips is created when something was selected, and an
\* exception of that os.makedirs ends main_workflow
SelectSegments ==
    /\ r_pc = "select"
    /\ IF ~whisper.has_segments \/ whisper.segments = <<>>
       THEN /\ selection' = <<>>
            /\ stage_outcome' = [stage_outcome EXCEPT !.select = "skipped"]
            /\ call_log' = call_log
       ELSE /\ \E n \in 0 .. MaxNum, d \in 0 .. 1, ld \in LoadOutcomes,
                  tagger \in TaggerPool \cup FailingTaggerPool :
                  LET r == FindImportantSegments(whisper.segments, n, d, ld, tagger)
                  IN /\ selection' = IF r.raised THEN <<>> ELSE ClipRecords(r.out,
                                                       ReturnedDicts(r.out,
                                                                     whisper.segments))
                     /\ stage_outcome' =
                          [stage_outcome EXCEPT
                              !.select = IF r.raised THEN "raised" ELSE "ok",
                              !.tagger =
                                 IF ld = "ok" /\ TaggerRaises(whisper.segments, tagger)
                                 THEN "raised" ELSE ""]
            /\ call_log' = Append(call_log, Call("select", 0))
    /\ selected_segments' = selection'
    /\ rec_outcome' = [i \in DOMAIN selection' |-> NotCalled]
    /\ \E makedirs \in MakedirsOutcomes :
          IF selection' # <<>> /\ makedirs = "raised"
          THEN /\ files' = files
               /\ r_pc' = "raised"
               /\ r_i' = r_i
          ELSE /\ files' = IF selection' # <<>> THEN files \cup {RawClipsDir}
                           ELSE files
               /\ r_pc' = AfterSelection(selection')
               /\ r_i' = 1
    /\ UNCHANGED <<found, args, whisper, live_segments, extracted_clips_info,
                   processed_clips_info,
                   final_segment_paths, sel_vars, win_vars, time_vars, col_vars>>

\* one pass of the Stage 5 loop: the cut of selected_segments[r_i]
Cut ==
    /\ r_pc = "cut"
    /\ ~LoopOver(r_i, selected_segments)
    /\ LET rec == selected_segments[r_i]
       IN \E makedirs \in MakedirsOutcomes, tool \in CutToolOutcomes :
            LET o   == ExtractVideoSegments(rec.start, rec.end, makedirs, tool)
                raw == Path("raw", rec.id)
            IN /\ rec_outcome' = [rec_outcome EXCEPT ![rec.id].cut = o]
               /\ files' \in CutFiles(files, raw, o,
                                       ToolRan(rec.start, rec.end, makedirs))
               /\ selected_segments' =
                    IF CutSucceeded(o)
                    THEN WithKey(selected_segments, rec.id, "raw_clip_path", raw)
                    ELSE selected_segments
               /\ extracted_clips_info' =
                    IF CutSucceeded(o)
                    THEN Append(extracted_clips_info,
                                [rec EXCEPT !.raw_clip_path = raw])
                    ELSE extracted_clips_info
               /\ live_segments' =
                    IF CutSucceeded(o)
                    THEN SetKey(live_segments, AliasOf(rec, live_segments),
                                "raw_clip_path", raw)
                    ELSE live_segments
               /\ call_log' = Append(call_log, Call("cut", rec.id))
    /\ r_i' = r_i + 1
    /\ UNCHANGED <<found, r_pc, args, stage_outcome, whisper, selection,
                   processed_clips_info, final_segment_paths,
                   sel_vars, win_vars, time_vars, col_vars>>

\* selected_segments = extracted_clips_info, and on to Stage 6, whose head
\* creates final_clips when a record is left: an exception of that
\* os.makedirs ends main_workflow
EndCut ==
    /\ r_pc = "cut"
    /\ LoopOver(r_i, selected_segments)
    /\ selected_segments' = extracted_clips_info
    /\ \E makedirs \in MakedirsOutcomes :
          IF extracted_clips_info # <<>> /\ makedirs = "raised"
          THEN r_pc' = "raised" /\ r_i' = r_i
          ELSE r_pc' = "reformat" /\ r_i' = 1
    /\ UNCHANGED <<found, args, stage_outcome, whisper, live_segments, selection,
                   extracted_clips_info, processed_clips_info, rec_outcome,
                   files, call_log, final_segment_paths,
                   sel_vars, win_vars, time_vars, col_vars>>

\* one pass of the Stage 6 loop up to the captioning call: the raw clip is
\* checked, reformatted, and the record is finished here when it is not to be
\* captioned; an exception of convert_video_aspect_ratio ends main_workflow;
\* after None or an exception the formatted file may be there in part
Reformat ==
    /\ r_pc = "reformat"
    /\ ~LoopOver(r_i, selected_segments)
    /\ LET rec       == selected_segments[r_i]
           formatted == Path("formatted", rec.id)
       IN IF ~RawClipUsable(rec, files)
          THEN /\ rec_outcome' = [rec_outcome EXCEPT ![rec.id].reformat = "skipped"]
               /\ r_pc' = "reformat"
               /\ r_i' = r_i + 1
               /\ UNCHANGED <<files, call_log, processed_clips_info, live_segments,
                              selected_segments, extracted_clips_info>>
          ELSE /\ call_log' = Append(call_log, Call("reformat", rec.id))
               /\ \E o \in ReformatOutcomes :
                     /\ rec_outcome' = [rec_outcome EXCEPT ![rec.id].reformat = o]
                     /\ files' \in ReformatFiles(files, formatted, o)
                     /\ IF o = "raised"
                        THEN /\ r_pc' = "raised"
                             /\ r_i' = r_i
                             /\ UNCHANGED <<processed_clips_info, live_segments,
                                            selected_segments,
                                            extracted_clips_info>>
                        ELSE IF ~ReformatSucceeded(o)
                        THEN /\ r_pc' = "reformat"
                             /\ r_i' = r_i + 1
                             /\ UNCHANGED <<processed_clips_info,
                                            live_segments, selected_segments,
                                            extracted_clips_info>>
                        ELSE /\ IF CaptioningWanted(args)
                                   /\ AdjustedTranscriptionSegments(live_segments,
                                                                    rec) # <<>>
                                THEN /\ r_pc' = "caption"
                                     /\ r_i' = r_i
                                     /\ UNCHANGED <<processed_clips_info,
                                                    live_segments,
                                                    selected_segments,
                                                    extracted_clips_info>>
                                ELSE /\ r_pc' = "reformat"
                                     /\ r_i' = r_i + 1
                                     /\ processed_clips_info' =
                                          WithFinal(processed_clips_info, rec,
                                                    formatted)
                                     /\ selected_segments' =
                                          WithKey(selected_segments, rec.id,
                                                  "final_clip_path", formatted)
                                     /\ extracted_clips_info' =
                                          WithKey(extracted_clips_info, rec.id,
                                                  "final_clip_path", formatted)
                                     /\ live_segments' =
                                          SetKey(live_segments,
                                                 AliasOf(rec, live_segments),
                                                 "final_clip_path", formatted)
    /\ UNCHANGED <<found, args, stage_outcome, whisper, selection,
                   final_segment_paths,
                   sel_vars, win_vars, time_vars, col_vars>>

\* the rest of the pass: add_captions_to_video on the formatted file; it
\* writes the captioned file, returns without writing, or raises, with or
\* without the captioned file written, and nothing in main_workflow catches
\* what it raises; back from the call, os.path.exists(captioned_output_path)
\* makes the captioned path the final one, whether the call wrote the file or
\* an earlier run left it
Caption ==
    /\ r_pc = "caption"
    /\ LET rec       == selected_segments[r_i]
           formatted == Path("formatted", rec.id)
           captioned == Path("captioned", rec.id)
       IN /\ call_log' = Append(call_log, Call("caption", rec.id))
          /\ \E o \in CaptionOutcomes(files, rec.id), rm \in RemoveOutcomes :
                /\ rec_outcome' =
                     [rec_outcome EXCEPT
                         ![rec.id].caption = o,
                         ![rec.id].captions =
                            AdjustedTranscriptionSegments(live_segments, rec)]
                /\ IF o = "raised"
                   THEN /\ r_pc' = "raised"
                        /\ r_i' = r_i
                        /\ files' \in {files, files \cup {captioned}}
                        /\ UNCHANGED <<processed_clips_info, live_segments,
                                       selected_segments, extracted_clips_info>>
                   ELSE LET after  == IF o = "written"
                                      THEN files \cup {captioned} ELSE files
                            exists == captioned \in after
                            final  == IF exists THEN captioned ELSE formatted
                        IN /\ r_pc' = "reformat"
                           /\ r_i' = r_i + 1
                           /\ files' =
                                AfterCaptionFiles(after, rec.id,
                                                  args.keep_intermediate_files,
                                                  rm)
                           /\ processed_clips_info' =
                                AfterCaption(processed_clips_info, rec, exists)
                           /\ selected_segments' =
                                WithKey(selected_segments, rec.id,
                                        "final_clip_path", final)
                           /\ extracted_clips_info' =
                                WithKey(extracted_clips_info, rec.id,
                                        "final_clip_path", final)
                           /\ live_segments' =
                                SetKey(live_segments, AliasOf(rec, live_segments),
                                       "final_clip_path", final)
    /\ UNCHANGED <<found, args, stage_outcome, whisper, selection,
                   final_segment_paths,
                   sel_vars, win_vars, time_vars, col_vars>>

\* selected_segments = processed_clips_info, and the final output list
EndReformat ==
    /\ r_pc = "reformat"
    /\ LoopOver(r_i, selected_segments)
    /\ selected_segments' = processed_clips_info
    /\ final_segment_paths' = FinalSegmentPaths(processed_clips_info)
    /\ r_pc' = "cleanup"
    /\ UNCHANGED <<found, args, stage_outcome, whisper, live_segments, selection,
                   extracted_clips_info, processed_clips_info, r_i, rec_outcome,
                   files, call_log, sel_vars, win_vars, time_vars, col_vars>>

\* what Stage 7 can do: nothing when the intermediate files are kept;
\* otherwise both trees removed, or OSError from the first rmtree (the second
\* is then not attempted), or OSError from the second; the second is called
\* only when raw_clips exists
CleanupOutcomes(keep, fs) ==
    IF keep THEN {"kept"}
    ELSE {"removed", "temp_failed"}
           \cup (IF RawClipsDir \in fs THEN {"raw_failed"} ELSE {})

\* the raw clips on disk, the entries of raw_clips
RawClips(fs) == { f \in fs : f.kind = "raw" }

AfterCleanup_IgnoresKeep(fs, o, gone) == fs \ { f \in fs : f.kind \in {"temp_dir", "raw_clips", "raw"} }

\* the paths left by Stage 7; a failing rmtree of raw_clips leaves the
\* directory and has removed the clips in gone before it failed
AfterCleanup(fs, o, gone) ==
    IF o = "removed" THEN fs \ { f \in fs : f.kind \in {"temp_dir", "raw_clips", "raw"} }
    ELSE IF o = "raw_failed" THEN (fs \ {TempDir}) \ gone
    ELSE fs

\* Stage 7 and the closing summary
Cleanup ==
    /\ r_pc = "cleanup"
    /\ \E o \in CleanupOutcomes(args.keep_intermediate_files, files),
          gone \in SUBSET RawClips(files) :
          /\ stage_outcome' = [stage_outcome EXCEPT !.cleanup = o]
          /\ files' = AfterCleanup(files, o, gone)
    /\ r_pc' = "done"
    /\ UNCHANGED <<found, args, whisper, live_segments, selection, selected_segments,
                   extracted_clips_info, processed_clips_info, r_i, rec_outcome,
                   call_log, final_segment_paths, sel_vars, win_vars, time_vars, col_vars>>

InitWorkflow == SelIdle /\ WinIdle /\ TimeIdle /\ ColIdle /\ RunInit

NextWorkflow ==
    \/ Enter \/ Ingest \/ ExtractAudio \/ Transcribe \/ SelectSegments
    \/ Cut \/ EndCut \/ Reformat \/ Caption \/ EndReformat \/ Cleanup

SpecWorkflow == InitWorkflow /\ [][NextWorkflow]_vars

----------------------------------------------------------------------------
(* Properties of main_workflow *)

Called(names) == \E i \in DOMAIN call_log : call_log[i].name \in names

CalledFor(name, id) == \E i \in DOMAIN call_log : call_log[i] = Call(name, id)

ClipFiles == { f \in files : f.kind \in {"raw", "formatted", "captioned"} }

Failed(stage) == stage_outcome[stage] \notin {"", "ok"}

\* no collaborator of the named later stages was called, and output_dir
\* holds what it held when the run was called and the working directory:
\* no clip was written
StoppedBefore(later) ==
    /\ r_pc = "returned"
    /\ ~Called(later)
    /\ files = found \cup {TempDir}
    /\ processed_clips_info = <<>>
    /\ final_segment_paths = <<>>

\* C14: when input resolution, audio extraction or transcription fails, the
\* run stops at that stage: no collaborator of a later stage is called
\* afterwards and no clip is produced
C14_FatalAbort ==
    /\ Failed("ingest") =>
          StoppedBefore({"extract_audio", "transcribe", "select", "cut",
                         "reformat", "caption"})
    /\ Failed("audio") =>
          StoppedBefore({"transcribe", "select", "cut", "reformat", "caption"})
    /\ Failed("transcribe") =>
          StoppedBefore({"select", "cut", "reformat", "caption"})

\* audio extraction handed back None, and the run returned right there; the
\* captioned clip an earlier run left is all there is in output_dir next to
\* the working directory
C14_Witness ==
    /\ r_pc = "returned"
    /\ stage_outcome.audio = "None"
    /\ call_log = <<Call("ingest", 0), Call("extract_audio", 0)>>
    /\ found = {Path("captioned", 1)}
    /\ files = {Path("captioned", 1), TempDir}
Terminal == r_pc \in {"returned", "done", "raised"}

InFinal(id) ==
    \E i \in DOMAIN final_segment_paths : final_segment_paths[i].seg = id

\* C15: a failure of the cut, the reformat or the captioning of one record,
\* by failure value or by exception, leaves every sibling to go through its
\* own steps, and every record cut and reformatted with success ends in the
\* final output list
C15_FailureIsolation ==
    (Terminal /\ stage_outcome.select # "") =>
        \A id \in DOMAIN selection :
            /\ rec_outcome[id].cut # ""
            /\ rec_outcome[id].cut \in {"True", "True_no_file"} =>
                  rec_outcome[id].reformat # ""
            /\ (rec_outcome[id].cut = "True" /\ ReformatSucceeded(rec_outcome[id].reformat)) =>
                  InFinal(id)

Ids(recs) == [i \in DOMAIN recs |-> recs[i].id]

StrictlyIncreasing(ns) ==
    \A i, j \in DOMAIN ns : i < j => ns[i] < ns[j]

\* the record is the selected segment numbered id
IsSelected(rec) ==
    /\ rec.id \in DOMAIN selection
    /\ rec.text = selection[rec.id].text
    /\ rec.start = selection[rec.id].start
    /\ rec.end = selection[rec.id].end

\* C16: at every point of the run, and at its end, the records behind the
\* final output paths are a subsequence of the selected segments: each path
\* belongs to one selected segment, none twice, in the selection's order
C16_Subsequence ==
    /\ StrictlyIncreasing(Ids(processed_clips_info))
    /\ \A i \in DOMAIN processed_clips_info :
          /\ IsSelected(processed_clips_info[i])
          /\ processed_clips_info[i].final_clip_path.seg = processed_clips_info[i].id
    /\ StrictlyIncreasing([i \in DOMAIN final_segment_paths |->
                              final_segment_paths[i].seg])
    /\ \A i \in DOMAIN final_segment_paths :
          /\ final_segment_paths[i].seg \in DOMAIN selection
          /\ final_segment_paths[i].kind \in {"formatted", "captioned"}
    /\ Len(final_segment_paths) <= Len(processed_clips_info)

\* both segments of the transcript selected, both in the final list in this
\* order
C16_Witness ==
    /\ r_pc = "done"
    /\ Len(selection) = 2
    /\ selection[1].start = 0
    /\ selection[2].start = 1
    /\ Len(final_segment_paths) = 2
    /\ final_segment_paths[1].seg = 1
    /\ final_segment_paths[2].seg = 2

\* the entries of processed_clips_info for the selected segment numbered id
ProcessedFor(id) ==
    { i \in DOMAIN processed_clips_info : processed_clips_info[i].id = id }

CaptionSet(id) == AdjustedTranscriptionSegments(whisper.segments, selection[id])

\* C17: a reformatted record is not captioned, and ends with its formatted
\* file, when captioning is switched off or its caption set is empty; a record
\* ends with its captioned file only if captioning was called for it and the
\* captioned file exists
C17_CaptionGating ==
    \A id \in DOMAIN selection :
        /\ (ReformatSucceeded(rec_outcome[id].reformat)
              /\ (args.skip_captioning \/ CaptionSet(id) = <<>>)) =>
               /\ ~CalledFor("caption", id)
               /\ \E i \in ProcessedFor(id) :
                     processed_clips_info[i].final_clip_path = Path("formatted", id)
        /\ \A i \in ProcessedFor(id) :
               processed_clips_info[i].final_clip_path = Path("captioned", id) =>
                   /\ CalledFor("caption", id)
                   /\ Path("captioned", id) \in files

\* captioning switched off: two records, both ending with their formatted
\* files, no captioning call made
C17_Witness ==
    /\ r_pc = "done"
    /\ args.skip_captioning
    /\ final_segment_paths = <<Path("formatted", 1), Path("formatted", 2)>>
    /\ ~Called({"caption"})

\* the captioning of the record was called and came back without its file, or
\* was not called because the caption set was empty
Uncaptioned(id) ==
    \/ rec_outcome[id].caption = "not_written"
    \/ /\ ReformatSucceeded(rec_outcome[id].reformat)
       /\ ~args.skip_captioning
       /\ CaptionSet(id) = <<>>

\* C18: a record whose captioning fails or whose caption set is empty is
\* dropped from the working set and gives no path to the final output list
C18_DroppedWhenUncaptioned ==
    \A id \in DOMAIN selection :
        Uncaptioned(id) => (ProcessedFor(id) = {} /\ ~InFinal(id))

\* the final path of a record left uncaptioned: its formatted file, or the
\* file an earlier run left at its captioned path when the captioning call
\* came back and found that one there
UncaptionedFinal(id) ==
    IF rec_outcome[id].caption = "not_written" /\ Path("captioned", id) \in found
    THEN Path("captioned", id)
    ELSE Path("formatted", id)

\* C18, as the code has it: such a record stays in the working set, the loop
\* goes on to its siblings, and the record's path is in the final output
\* list: its formatted file, or the file that was at its captioned path
\* before the run
C18_KeptWhenUncaptioned ==
    \A id \in DOMAIN selection :
        Uncaptioned(id) =>
            /\ \E i \in ProcessedFor(id) :
                  processed_clips_info[i].final_clip_path = UncaptionedFinal(id)
            /\ (call_log # <<>> /\ call_log[Len(call_log)] = Call("caption", id)) =>
                  r_pc \in {"reformat", "cleanup", "done"}
            /\ r_pc \in {"cleanup", "done"} =>
                  \E i \in DOMAIN final_segment_paths :
                      final_segment_paths[i] = UncaptionedFinal(id)
\* the captioning of the first record came back without a file; the record is
\* in the final list with its formatted file, next to its captioned sibling
C18_Witness ==
    /\ r_pc = "done"
    /\ Len(selection) = 2
    /\ rec_outcome[1].caption = "not_written"
    /\ Path("captioned", 1) \notin found
    /\ final_segment_paths = <<Path("formatted", 1), Path("captioned", 2)>>
\* C19: with nothing selected (no transcript segments, or a selector that
\* hands back nothing) no cut, reformat or captioning call is made, and the
\* run goes on through cleanup to its end with an empty final output list
C19_EmptySelection ==
    (stage_outcome.select # "" /\ selection = <<>>) =>
        /\ ~Called({"cut", "reformat", "caption"})
        /\ r_pc \in {"cut", "reformat", "cleanup", "done"}
        /\ r_pc # "done" => ENABLED NextWorkflow
        /\ final_segment_paths = <<>>
        /\ ClipFiles \subseteq found

\* the selector was called on a transcript with segments, selected nothing,
\* and the run is done; the formatted clip of an earlier run is still the
\* only clip in output_dir
C19_Witness ==
    /\ r_pc = "done"
    /\ whisper.segments # <<>>
    /\ stage_outcome.select = "ok"
    /\ selection = <<>>
    /\ final_segment_paths = <<>>
    /\ found = {Path("formatted", 1)}
    /\ ClipFiles = found
\* C20: once ingest, audio extraction and transcription have succeeded the
\* run ends nowhere but after cleanup, whatever the cut, reformat and
\* captioning calls do, a captioning call that raises included
C20_RunsToCompletion ==
    stage_outcome.transcribe = "ok" =>
        /\ r_pc \notin {"returned", "raised"}
        /\ r_pc # "done" => ENABLED NextWorkflow

\* raw_clips was in output_dir when Stage 7 began: the run made it for its
\* selection, or found it
RawClipsDirThere == selection # <<>> \/ RawClipsDir \in found

\* C21: at the end of a run that reached cleanup, with
\* keep_intermediate_files false neither the working directory nor raw_clips
\* exists; with it true both are left in place, and so is the formatted file
\* of every record that got a captioned file
C21_CleanupGated ==
    r_pc = "done" =>
        IF args.keep_intermediate_files
        THEN /\ TempDir \in files
             /\ RawClipsDirThere => RawClipsDir \in files
             /\ \A id \in DOMAIN selection :
                   rec_outcome[id].reformat = "path" => Path("formatted", id) \in files
        ELSE TempDir \notin files /\ RawClipsDir \notin files
\* C21, as the code has it: with keep_intermediate_files false both
\* directories are gone when both removals went through; an OSError from the
\* removal of the working directory leaves both in place, one from the
\* removal of raw_clips leaves raw_clips in place; the run is done either way
C21_CleanupGatedUnlessRemovalFails ==
    r_pc = "done" =>
        /\ stage_outcome.cleanup \in
              CleanupOutcomes(args.keep_intermediate_files,
                              IF RawClipsDirThere THEN {RawClipsDir} ELSE {})
        /\ stage_outcome.cleanup = "kept" =>
              /\ TempDir \in files
              /\ RawClipsDirThere => RawClipsDir \in files
              /\ \A id \in DOMAIN selection :
                    rec_outcome[id].reformat = "path" => Path("formatted", id) \in files
        /\ stage_outcome.cleanup = "removed" =>
              /\ TempDir \notin files /\ RawClipsDir \notin files
              /\ \A f \in files : f.kind \in {"formatted", "captioned"}
        /\ stage_outcome.cleanup = "temp_failed" =>
              /\ TempDir \in files
              /\ RawClipsDirThere => RawClipsDir \in files
        /\ stage_outcome.cleanup = "raw_failed" =>
              TempDir \notin files /\ RawClipsDir \in files

\* intermediate files not kept, both removals went through after a record was
\* captioned, in an output_dir where an earlier run had left raw_clips with a
\* clip in it: only the captioned file is left
C21_Witness ==
    /\ r_pc = "done"
    /\ ~args.keep_intermediate_files
    /\ stage_outcome.cleanup = "removed"
    /\ found = {RawClipsDir, Path("raw", 2)}
    /\ files = {Path("captioned", 1)}
\* the number of calls of the collaborator for the selected segment id
Calls(name, id) ==
    Cardinality({ i \in DOMAIN call_log : call_log[i] = Call(name, id) })

\* the raw clip of the record is on disk; Stage 7 is the only step that
\* removes it, also in part when its rmtree of raw_clips fails
RawClipOnDisk(id) ==
    Path("raw", id) \in files \/ stage_outcome.cleanup \in {"removed", "raw_failed"}

\* C28: no retry and no advance of a failed record: for each record the cut,
\* the reformat and the caption collaborator are each called at most once;
\* reformat is called only if the record's cut returned success and its raw
\* clip file exists; caption is called only if its reformat returned a path
C28_NoRetryNoAdvance ==
    \A id \in DOMAIN selection :
        /\ \A name \in {"cut", "reformat", "caption"} : Calls(name, id) <= 1
        /\ CalledFor("reformat", id) =>
              (CutSucceeded(rec_outcome[id].cut) /\ RawClipOnDisk(id))
        /\ CalledFor("caption", id) => ReformatSucceeded(rec_outcome[id].reformat)

\* two records cut once each: the first cut reported success without leaving
\* a file and none was there from an earlier run, the second went through
\* reformat and caption
C28_Witness ==
    /\ r_pc = "done"
    /\ Len(selection) = 2
    /\ rec_outcome[1].cut = "True_no_file"
    /\ Path("raw", 1) \notin found
    /\ rec_outcome[2].caption = "written"
    /\ \A id \in 1 .. 2 : Calls("cut", id) = 1
    /\ ~CalledFor("reformat", 1)
    /\ Calls("reformat", 2) = 1 /\ Calls("caption", 2) = 1

\* the records the run holds, in whichever list
Records ==
    { selected_segments[i] : i \in DOMAIN selected_segments }
      \cup { extracted_clips_info[i] : i \in DOMAIN extracted_clips_info }
      \cup { processed_clips_info[i] : i \in DOMAIN processed_clips_info }

\* C29: the fields of a record are filled left to right: a record with
\* final_clip_path has raw_clip_path, raw_clip_path is set only after the
\* record's cut succeeded, and a record without raw_clip_path, or whose raw
\* file is missing, is never passed to reformat or caption
C29_FieldsLeftToRight ==
    /\ \A rec \in Records :
          /\ rec.final_clip_path # NoPath => rec.raw_clip_path # NoPath
          /\ rec.raw_clip_path # NoPath =>
                rec_outcome[rec.id].cut \in {"True", "True_no_file"}
    /\ \A id \in DOMAIN selection :
          (CalledFor("reformat", id) \/ CalledFor("caption", id)) =>
             /\ \E i \in DOMAIN extracted_clips_info :
                   /\ extracted_clips_info[i].id = id
                   /\ extracted_clips_info[i].raw_clip_path = Path("raw", id)
             /\ RawClipOnDisk(id)

\* the first record's cut failed and it got no field; the second was cut and
\* reformatted and carries both paths
C29_Witness ==
    /\ r_pc = "done"
    /\ Len(selection) = 2
    /\ rec_outcome[1].cut = "False"
    /\ \A rec \in Records : rec.id # 1
    /\ selected_segments =
          <<[selection[2] EXCEPT !.raw_clip_path = Path("raw", 2),
                                 !.final_clip_path = Path("formatted", 2)]>>

\* the transcript segments with non-blank text that overlap the record and
\* keep a positive length once rebased on its start, in transcript order
Overlapping(rec) ==
    SelectSeq(whisper.segments,
              LAMBDA ws : /\ Strip(ws.text) # <<>>
                          /\ ws.start < rec.end
                          /\ ws.end > rec.start
                          /\ ws.end - rec.start > Max(0, ws.start - rec.start))

Rebased(rec) ==
    LET kept == Overlapping(rec)
    IN [k \in DOMAIN kept |->
          [text  |-> Strip(kept[k].text),
           start |-> Max(0, kept[k].start - rec.start),
           end   |-> kept[k].end - rec.start]]

\* C30: the caption set handed to the caption collaborator for a record is
\* the transcript segments with non-blank trimmed text, start before the
\* record's end and end after its start, in transcript order, each rebased to
\* start = max(0, start - record start) and end = end - record start, kept
\* only when end > start; so every caption has 0 <= start < end
C30_CaptionRebasing ==
    \A id \in DOMAIN selection :
        CalledFor("caption", id) =>
            /\ rec_outcome[id].captions = Rebased(selection[id])
            /\ \A k \in DOMAIN rec_outcome[id].captions :
                  LET caption == rec_outcome[id].captions[k]
                  IN 0 <= caption.start /\ caption.start < caption.end

\* the record of the second segment, [1, 2], captioned with the first segment
\* [0, 2], which starts before it, clamped to [0, 1], and with its own
C30_Witness ==
    /\ Len(selection) = 2
    /\ selection[2].start = 1
    /\ selection[2].end = 2
    /\ CalledFor("caption", 2)
    /\ whisper.segments[1].end = 2
    /\ rec_outcome[2].captions =
          <<[text |-> <<"a">>, start |-> 0, end |-> 1],
            [text |-> <<"a">>, start |-> 0, end |-> 1]>>

\* the caption the record's own transcript segment rebases to
OwnCaption(rec) == [text |-> rec.text, start |-> 0, end |-> rec.end - rec.start]

\* C34: for every record that reaches the captioning step with captioning
\* enabled the rebased caption set is non-empty: it holds the record's own
\* transcript segment, rebased to [0, end - start] with end > start; the
\* branch for an empty caption set is never taken
C34_CaptionSetNonEmpty ==
    \A id \in DOMAIN selection :
        (ReformatSucceeded(rec_outcome[id].reformat) /\ ~args.skip_captioning) =>
            /\ selection[id].end > selection[id].start
            /\ LET captions == CaptionSet(id)
               IN \E k \in DOMAIN captions :
                     captions[k] = OwnCaption(selection[id])
            /\ (r_pc = "caption" /\ selected_segments[r_i].id = id)
                  \/ CalledFor("caption", id)

\* one record of one second, captioned with its own segment alone
C34_Witness ==
    /\ r_pc = "done"
    /\ ~args.skip_captioning
    /\ Len(selection) = 1
    /\ selection[1].end - selection[1].start = 1
    /\ rec_outcome[1].reformat = "path"
    /\ rec_outcome[1].captions = <<OwnCaption(selection[1])>>

\* C35: every path of the final output list is a file that exists when the
\* run is finished: a formatted file is gone only when the record's final
\* file is its captioned file, and cleanup takes nothing out of final_clips
C35_FinalFilesExist ==
    /\ r_pc = "done" =>
          \A i \in DOMAIN final_segment_paths : final_segment_paths[i] \in files
    /\ \A id \in DOMAIN selection :
          (ReformatSucceeded(rec_outcome[id].reformat)
             /\ Path("formatted", id) \notin files) =>
               /\ Path("captioned", id) \in files
               /\ \E i \in ProcessedFor(id) :
                     processed_clips_info[i].final_clip_path
                        = Path("captioned", id)

\* C37: on a fatal abort (ingest, audio extraction or transcription failed)
\* cleanup is not executed and the working directory stays, whatever
\* keep_intermediate_files is; cleanup runs only on runs that got past
\* transcription
C37_NoCleanupOnAbort ==
    /\ r_pc = "returned" =>
          /\ TempDir \in files
          /\ stage_outcome.cleanup = ""
    /\ (\E stage \in {"ingest", "audio", "transcribe"} :
            Fatal(stage_outcome[stage]) /\ stage_outcome[stage] # "") =>
          /\ r_pc = "returned"
          /\ stage_outcome.cleanup = ""
    /\ stage_outcome.cleanup # "" => stage_outcome.transcribe = "ok"

\* audio extraction failed with intermediate files not to be kept: the run
\* returned and the working directory is still there
C37_Witness ==
    /\ r_pc = "returned"
    /\ ~args.keep_intermediate_files
    /\ stage_outcome.audio = "None"
    /\ stage_outcome.cleanup = ""
    /\ TempDir \notin found
    /\ files = found \cup {TempDir}
\* the positions of the cut, reformat and caption calls in the call log
StageCalls(names) == { i \in DOMAIN call_log : call_log[i].name \in names }

\* C38: stage order: every selected record's cut is attempted before the
\* first reformat call, no cut call follows a reformat or caption call, and
\* in the reformat/caption stage a record's caption call follows its own
\* reformat call directly, before the next record's reformat
C38_StageOrder ==
    /\ \A i \in StageCalls({"cut"}), j \in StageCalls({"reformat", "caption"}) :
          i < j
    /\ Called({"reformat"}) =>
          \A id \in DOMAIN selection : CalledFor("cut", id)
    /\ \A i \in StageCalls({"caption"}) :
          i > 1 /\ call_log[i - 1] = Call("reformat", call_log[i].seg)
    /\ \A i, j \in StageCalls({"reformat"}) :
          i < j => call_log[i].seg < call_log[j].seg

\* two records: cut, cut, then reformat and caption of the first, then
\* reformat and caption of the second
C38_Witness ==
    /\ r_pc = "done"
    /\ Len(selection) = 2
    /\ SubSeq(call_log, Len(call_log) - 5, Len(call_log)) =
          <<Call("cut", 1), Call("cut", 2),
            Call("reformat", 1), Call("caption", 1),
            Call("reformat", 2), Call("caption", 2)>>

\* C39: when the selector raises after the NLP model loaded (the tagger
\* fails on a segment) the run does not abort and the text-length fallback
\* is not used: nothing is selected, no cut, reformat or caption call is
\* made, and the run goes on to cleanup and ends with no output clip
C39_SelectorFailureYieldsNothing ==
    stage_outcome.tagger = "raised" =>
        /\ stage_outcome.select = "raised"
        /\ selection = <<>>
        /\ ~Called({"cut", "reformat", "caption"})
        /\ r_pc \in {"cut", "reformat", "cleanup", "done"}
        /\ r_pc # "done" => ENABLED NextWorkflow
        /\ r_pc = "done" => (stage_outcome.cleanup # "" /\ final_segment_paths = <<>>)
        /\ ClipFiles \subseteq found
\* the tagger raised on a transcript with a segment the fallback would have
\* selected; the run is done, cleanup ran, nothing was produced
C39_Witness ==
    /\ r_pc = "done"
    /\ stage_outcome.tagger = "raised"
    /\ stage_outcome.select = "raised"
    /\ stage_outcome.cleanup = "removed"
    /\ \E k \in DOMAIN whisper.segments :
          /\ Strip(whisper.segments[k].text) # <<>>
          /\ whisper.segments[k].end > whisper.segments[k].start
    /\ call_log[Len(call_log)] = Call("select", 0)
    /\ found = {TempDir, Path("formatted", 1)}
    /\ files = {Path("formatted", 1)}
\* C32: the transcript is read-only for the whole run: selection, the path
\* bookkeeping of the records and the caption rebasing leave every field of
\* every transcript segment as transcription returned it, so the transcript
\* the last record is captioned from is the one received
C32_TranscriptReadOnly ==
    live_segments = AsReceived(whisper.segments)

\* two records cut, reformatted and captioned, both paths set on each, and
\* the transcript dicts carry no path
C32_Witness ==
    /\ r_pc = "done"
    /\ Len(selected_segments) = 2
    /\ \A i \in 1 .. 2 :
          /\ selected_segments[i].raw_clip_path = Path("raw", i)
          /\ selected_segments[i].final_clip_path = Path("captioned", i)
    /\ Len(live_segments) = 2
    /\ \A k \in 1 .. 2 :
          /\ live_segments[k].raw_clip_path = NoPath
          /\ live_segments[k].final_clip_path = NoPath

----------------------------------------------------------------------------
(* utils.download_youtube_video and audio_processing.transcribe_audio_with_whisper *)

\* paths: "A" the one requested_downloads reports, "B" the one under
\* 'filename', "T" the one the output template gives, "L" a file of the
\* output directory whose name holds the title
DownloadInputs ==
    { [NoDownload EXCEPT !.extract = e] : e \in {"DownloadError", "Exception", "None"} }
      \cup [extract   : {"info"},
            requested : {"absent", "empty", "no_filepath", "A"},
            filename  : {"absent", "B"},
            title_ext : BOOLEAN,
            exist     : SUBSET {"A", "B", "T"},
            listed    : {"none", "L"},
            prepared  : {"A", "T"}]

\* os.path.exists
Exists(path, in) == path = "L" \/ path \in in.exist

\* the path lines 23-45 settle on; "KeyError" when the first requested
\* download has no 'filepath', "None" when line 41 or 45 returns None
DeterminedPath(in) ==
    IF in.requested \notin {"absent", "empty"}
    THEN (IF in.requested = "no_filepath" THEN "KeyError" ELSE in.requested)
    ELSE IF in.filename # "absent" THEN in.filename
    ELSE IF in.title_ext
    THEN (IF Exists(in.prepared, in) THEN in.prepared
          ELSE IF in.listed # "none" THEN in.listed
          ELSE "None")
    ELSE "None"

DownloadYoutubeVideo_TrustsReport(in) ==
    IF in.extract # "info" THEN "None"
    ELSE IF DeterminedPath(in) = "KeyError" THEN "None"
    ELSE DeterminedPath(in)

\* what download_youtube_video returns
DownloadYoutubeVideo(in) ==
    IF in.extract # "info" THEN "None"
    ELSE LET video_file == DeterminedPath(in)
         IN IF video_file \in {"KeyError", "None"} THEN "None"
            ELSE IF Exists(video_file, in) THEN video_file
            ELSE IF Exists(in.prepared, in) THEN in.prepared
            ELSE "None"

AudioInputs ==
    [file_exists : BOOLEAN, load : {"ok", "raised"}, transcribe : {"raised"},
     result : {NoWhisper}]
      \cup [file_exists : BOOLEAN, load : {"ok", "raised"}, transcribe : {"result"},
            result : RunTranscripts]

TranscribeAudioWithWhisper_LoadsFirst(in) ==
    IF in.load = "raised" \/ ~in.file_exists \/ in.transcribe = "raised"
    THEN NotTranscribed(1)
    ELSE Transcribed(in.result, 1)

\* what transcribe_audio_with_whisper returns
TranscribeAudioWithWhisper(in) ==
    IF ~in.file_exists THEN NotTranscribed(0)
    ELSE IF in.load = "raised" \/ in.transcribe = "raised" THEN NotTranscribed(1)
    ELSE Transcribed(in.result, 1)

\* the output directory there, absent and created by os.makedirs, or absent
\* with os.makedirs raising; spans of either sign; ffmpeg exiting with 0,
\* with another status, or not starting at all
ExtractInputs ==
    [video_exists : BOOLEAN, dir : {"exists", "created", "raises"},
     start : Times, end : Times,
     tool : {"ok", "CalledProcessError", "Exception"}]

\* extract_video_segments(video_file_path, start_seconds, end_seconds,
\* output_file_path): the video is looked for, the output directory is made,
\* the span is tested and the tool is run, in this order
ExtractVideoSegmentsCall(in) ==
    IF ~in.video_exists THEN Extracted("False", 0, FALSE)
    ELSE IF in.dir = "raises" THEN Extracted("raised", 0, FALSE)
    ELSE IF in.end - in.start <= 0
    THEN Extracted("False", 0, in.dir = "created")
    ELSE Extracted(IF in.tool = "ok" THEN "True" ELSE "False", 1,
                   in.dir = "created")

ColInit ==
    /\ d_out = "not called"
    /\ a_out = NotTranscribed(0)
    /\ e_out = Extracted("not called", 0, FALSE)
    /\ \/ c_pc = "download" /\ d_in \in DownloadInputs /\ a_in = NoAudio
          /\ e_in = NoExtract
       \/ c_pc = "transcribe" /\ a_in \in AudioInputs /\ d_in = NoDownload
          /\ e_in = NoExtract
       \/ c_pc = "extract" /\ e_in \in ExtractInputs /\ d_in = NoDownload
          /\ a_in = NoAudio

\* download_youtube_video(url, output_path)
Download ==
    /\ c_pc = "download"
    /\ d_out' = DownloadYoutubeVideo(d_in)
    /\ c_pc' = "downloaded"
    /\ UNCHANGED <<d_in, a_in, a_out, e_in, e_out, sel_vars, win_vars, time_vars,
                   run_vars>>

\* transcribe_audio_with_whisper(audio_file)
TranscribeAudio ==
    /\ c_pc = "transcribe"
    /\ a_out' = TranscribeAudioWithWhisper(a_in)
    /\ c_pc' = "transcribed"
    /\ UNCHANGED <<d_in, d_out, a_in, e_in, e_out, sel_vars, win_vars, time_vars,
                   run_vars>>

\* extract_video_segments on one span
ExtractSegment ==
    /\ c_pc = "extract"
    /\ e_out' = ExtractVideoSegmentsCall(e_in)
    /\ c_pc' = "extracted"
    /\ UNCHANGED <<d_in, d_out, a_in, a_out, e_in, sel_vars, win_vars, time_vars,
                   run_vars>>

InitCollaborators == SelIdle /\ WinIdle /\ TimeIdle /\ RunIdle /\ ColInit

NextCollaborators == Download \/ TranscribeAudio \/ ExtractSegment

SpecCollaborators == InitCollaborators /\ [][NextCollaborators]_vars

----------------------------------------------------------------------------
(* Properties of the collaborators *)

\* C22: download_youtube_video returns the path requested_downloads reports
\* whenever it reports one, and returns None when the download raises a
\* download error or when no path can be determined from the result
C22_ReportedPathOrNone ==
    c_pc = "downloaded" =>
        /\ (d_in.extract = "info" /\ d_in.requested = "A") => d_out = "A"
        /\ d_in.extract = "DownloadError" => d_out = "None"
        /\ (d_in.extract = "info" /\ DeterminedPath(d_in) \in {"KeyError", "None"}) =>
              d_out = "None"

\* C23: transcribe_audio_with_whisper returns None without loading the model
\* when the audio file does not exist, None when loading or transcribing
\* raises, and otherwise the transcription result as the model gave it
C23_TranscribeOrNone ==
    c_pc = "transcribed" =>
        IF ~a_in.file_exists
        THEN a_out.returned = "None" /\ a_out.load_calls = 0
        ELSE IF a_in.load = "raised" \/ a_in.transcribe = "raised"
        THEN a_out.returned = "None"
        ELSE a_out.returned = "result" /\ a_out.value = a_in.result

\* the file is missing: None came back and the model was not loaded
C23_Witness ==
    /\ c_pc = "transcribed"
    /\ ~a_in.file_exists
    /\ a_in.load = "ok"
    /\ a_in.transcribe = "result"
    /\ a_out = NotTranscribed(0)

\* C31: extract_video_segments returns False without running the media tool
\* when the input video is missing or end_seconds - start_seconds <= 0,
\* returns False when the tool run fails, and returns True exactly when the
\* tool was run once and exited successfully
C31_ExtractTrueIffToolSucceeded ==
    c_pc = "extracted" =>
        /\ (~e_in.video_exists \/ e_in.end - e_in.start <= 0) =>
              (e_out.returned = "False" /\ e_out.tool_calls = 0)
        /\ (e_out.tool_calls = 1 /\ e_in.tool # "ok") =>
              e_out.returned = "False"
        /\ e_out.returned = "True" <=>
              (e_out.tool_calls = 1 /\ e_in.tool = "ok")

----------------------------------------------------------------------------
(* The selector on segments that may lack a timestamp *)

\* segments whose 'start' or 'end' key may be absent
AnySegments ==
    [text : TextPool, start : Times \cup {NoneVal}, end : Times \cup {NoneVal}]

InitMalformed ==
    /\ transcription_segments \in SeqsUpTo(AnySegments, MaxMalformedSegs)
    /\ nlp \in TaggerPool
    /\ num_segments = 0
    /\ min_segment_duration = 0
    /\ load = "ok"
    /\ sel_pc = "input"
    /\ result = NoResult
    /\ again = NoResult
    /\ again_min = 0
    /\ WinIdle /\ TimeIdle /\ RunIdle /\ ColIdle

SpecMalformed == InitMalformed /\ [][Next]_vars

\* C24: in both scoring modes a segment whose trimmed text is empty or whose
\* start or end is missing is skipped: it is not in the output and the
\* selector does not raise
C24_MalformedSkipped ==
    Selected =>
        /\ ~result.raised
        /\ \A i \in DOMAIN result.out :
              /\ result.out[i].text # <<>>
              /\ result.out[i].start # NoneVal
              /\ result.out[i].end # NoneVal

----------------------------------------------------------------------------
(* The two scoring paths on one transcript *)

\* find_important_segments with the spaCy model loaded, and with it missing,
\* on the same arguments
ComparePaths ==
    /\ sel_pc = "input"
    /\ \E n \in (0 - MaxNeg) .. MaxNum, d \in Times :
          /\ num_segments' = n
          /\ min_segment_duration' = d
          /\ again_min' = d
          /\ result' = FindImportantSegments(transcription_segments, n, d, "ok", nlp)
          /\ again' = FindImportantSegments(transcription_segments, n, d, "OSError",
                                            nlp)
    /\ load' = "ok"
    /\ sel_pc' = "compared"
    /\ UNCHANGED <<transcription_segments, nlp, win_vars, time_vars, run_vars,
                   col_vars>>

SpecPaths == Init /\ [][ComparePaths]_vars

\* every text of the transcript is scored with its trimmed length
ScoreIsLength ==
    \A i \in DOMAIN transcription_segments :
        LET text == Strip(transcription_segments[i].text)
        IN text # <<>> => Score(nlp[text]) = Len(text)

\* C25: on a transcript whose segments all carry text, start and end, and
\* whose primary scores equal the trimmed text lengths, the spaCy path and the
\* fallback path return the same list of {text, start, end} records, text
\* trimmed, in the same order
C25_PathsAgree ==
    (sel_pc = "compared" /\ ScoreIsLength) =>
        /\ ~result.raised /\ ~again.raised
        /\ result.out = again.out
        /\ \A i \in DOMAIN result.out :
              /\ DOMAIN result.out[i] = {"text", "start", "end"}
              /\ result.out[i].text = Strip(result.out[i].text)

\* both paths picked the longer, higher-scored of two texts
C25_Witness ==
    /\ sel_pc = "compared"
    /\ ScoreIsLength
    /\ num_segments = 1
    /\ Len(transcription_segments) = 2
    /\ transcription_segments[1].text = <<"a">>
    /\ transcription_segments[2].text = <<"\t", "b", "c", "\n">>
    /\ result.out = <<[text |-> <<"b", "c">>,
                       start |-> transcription_segments[2].start,
                       end |-> transcription_segments[2].end]>>
    /\ again.out = result.out

\* the score a path gives the segment at position i
PathScore(i, spacy) ==
    LET text == Strip(transcription_segments[i].text)
    IN IF spacy THEN Score(nlp[text]) ELSE Len(text)

\* the candidates ranked before candidate i: a higher score, or the same
\* score and an earlier place in the transcript
RankedBefore(i, spacy) ==
    { k \in CandidateIdx :
        \/ PathScore(k, spacy) > PathScore(i, spacy)
        \/ (PathScore(k, spacy) = PathScore(i, spacy) /\ k < i) }

\* how many candidates the truncation [:num_segments] keeps
Kept ==
    IF num_segments >= 0 THEN Min(num_segments, Cardinality(CandidateIdx))
    ELSE Max(Cardinality(CandidateIdx) + num_segments, 0)

EarliestFirst(spacy) ==
    { i \in CandidateIdx : Cardinality(RankedBefore(i, spacy)) < Kept }

\* out holds exactly the segments at the positions idx, each as often
SameSegments(out, idx) ==
    /\ Len(out) = Cardinality(idx)
    /\ \A i \in idx :
          LET rec == AsSelected(transcription_segments[i])
          IN CountIn(out, rec)
               = Cardinality({ j \in idx :
                                 AsSelected(transcription_segments[j]) = rec })

\* C33: among candidates of equal score the truncation keeps the ones that
\* come earlier in the transcript, on the spaCy path and on the fallback path:
\* what is selected is fixed by the scores and the input order
C33_EarlierWinsTies ==
    sel_pc = "compared" =>
        /\ SameSegments(result.out, EarliestFirst(TRUE))
        /\ SameSegments(again.out, EarliestFirst(FALSE))

\* two segments with the same text, hence the same score on both paths, and
\* room for one: both paths return the first
C33_Witness ==
    /\ sel_pc = "compared"
    /\ num_segments = 1
    /\ min_segment_duration = 0
    /\ transcription_segments =
          <<[text |-> <<"a">>, start |-> 1, end |-> 2],
            [text |-> <<"a">>, start |-> 0, end |-> 1]>>
    /\ result.out = <<transcription_segments[1]>>
    /\ again.out = <<transcription_segments[1]>>

====
